---- MODULE Spec2Model ----
(***************************************************************************)
(* Logger lifecycle of nicegui_app_template (core/logger.py).              *)
(*                                                                         *)
(* The state is the process-wide registry of named loggers (handlers,      *)
(* level, propagate flag and the four attributes LoggerBootstrapper tags   *)
(* on the logger object), the handler objects, the log files on disk and   *)
(* the configuration stored in each LoggerBootstrapper.  One action per    *)
(* public operation; each action runs the whole method body, statement by  *)
(* statement, over a record W ("world") and records the statements it ran  *)
(* in last.trace.                                                          *)
(***************************************************************************)
EXTENDS Integers, Sequences, FiniteSets, TLC

\* ------------------------------------------------------------------------
\* Severities of the logging module (logger.py:75-83).
\* ------------------------------------------------------------------------
NOTSET == 0
DEBUG == 10
INFO == 20
WARNING == 30
ERROR == 40
CRITICAL == 50

\* getattr(logger, ATTR, None): the attribute is absent or None.
NoHandler == 0

\* ------------------------------------------------------------------------
\* Bounds of the exploration.
\* ------------------------------------------------------------------------
\* Number of calls (lifecycle operations, log calls, handlers attached by a
\* collaborator) in one run.
MaxSteps == 4
\* Size of the pool of handler objects that can be alive at once.
NumHandlerIds == 6

HandlerIds == 1..NumHandlerIds
LoggerNames == {"app", "other"}
Managers == {1}
TheManager == CHOOSE m \in Managers : TRUE
TheLogger == "app"
Paths == {"p1", "p2"}

\* The messages the application logs, in this order, each at one of EmitLevels.
UserMsgs == <<"M1", "M2">>
EmitLevels == {DEBUG, INFO}
\* Paths the application passes to enable_file_logging ("" is None).
PathArgs == {"", "p2"}

\* Handler classes a collaborator attaches (one handler of each at most).
ExternalKinds == {"Null", "Stream"}

\* LogConfig values the application may hold.  Capacity, path and rotation
\* vary together in two profiles so that every field takes two values.
ConfigLevels == {DEBUG, INFO}
Profiles ==
  { [buffer_capacity |-> 2, file_path |-> "p1", rotate_max_bytes |-> 250, rotate_backup_count |-> 2],
    [buffer_capacity |-> 3, file_path |-> "p2", rotate_max_bytes |-> 800, rotate_backup_count |-> 3] }

LogConfig(name, level, console, p) ==
  [name |-> name, level |-> level, console |-> console,
   buffer_capacity |-> p.buffer_capacity, file_path |-> p.file_path,
   rotate_max_bytes |-> p.rotate_max_bytes,
   rotate_backup_count |-> p.rotate_backup_count]

Configs ==
  { LogConfig(n, l, c, p) : n \in LoggerNames, l \in ConfigLevels, c \in BOOLEAN, p \in Profiles }

\* The configurations handed to update_config: every one that keeps the name,
\* and those of the first profile under the other name.
NewConfigs ==
  { c \in Configs : c.name = "app" \/ c.buffer_capacity = 2 }

VARIABLES
  loggers,           \* name -> logger object of logging's registry
  heap,              \* handler id -> handler object
  files,             \* path -> records written to the log file (and its backups)
  config,            \* manager -> LoggerBootstrapper._config
  root_logger_name,  \* module global _root_logger_name
  accepted,          \* records the application logger accepted since bootstrap
  emitted,           \* number of messages the application has logged
  steps,             \* number of calls made so far
  last,              \* the last operation: who, what, the statements it ran
  pc,                \* position of the thread that runs enable_file_logging()
  app                \* app.py's _bootstrapper and the AppState singleton's log section

vars == <<loggers, heap, files, config, root_logger_name, accepted, emitted, steps, last, pc, app>>

\* No thread is inside enable_file_logging(): every call runs from start to end.
Idle == [at |-> "idle", fh |-> NoHandler]

\* The process does not run app.py: no bootstrapper registered, no AppState.
NoApp == [bootstrapper |-> FALSE, state |-> "none"]

\* ------------------------------------------------------------------------
\* Objects
\* ------------------------------------------------------------------------
FreeSlot ==
  [kind |-> "Free", owner |-> "none", level |-> NOTSET, closed |-> FALSE,
   buffer |-> <<>>, capacity |-> 0, target |-> NoHandler,
   path |-> "", maxBytes |-> 0, backupCount |-> 0]

\* logging.getLogger(name) of a name not used before.
FreshLogger ==
  [handlers |-> <<>>, level |-> NOTSET, propagate |-> TRUE,
   memory_handler |-> NoHandler, console_handler |-> NoHandler,
   file_handler |-> NoHandler, bootstrapped |-> FALSE]

Record(msg, lvl) == [msg |-> msg, lvl |-> lvl]

\* isinstance checks of the handler class hierarchy.
IsHandler(W, h) == h # NoHandler
IsMemoryHandler(W, h) == h # NoHandler /\ W.hp[h].kind = "Memory"
IsStreamHandler(W, h) == h # NoHandler /\ W.hp[h].kind \in {"Stream", "RotatingFile"}
IsRotatingFileHandler(W, h) == h # NoHandler /\ W.hp[h].kind = "RotatingFile"

Range(s) == { s[i] : i \in 1..Len(s) }

\* Role of a handler object in the statements recorded in last.trace.
Role(W, h) ==
  IF h = NoHandler THEN "none"
  ELSE IF W.hp[h].owner = "external" THEN "external"
  ELSE IF W.hp[h].kind = "Memory" THEN "buffer"
  ELSE IF W.hp[h].kind = "Stream" THEN "console"
  ELSE IF W.hp[h].kind = "RotatingFile" THEN "file"
  ELSE "other"

Did(W, verb, what) == [W EXCEPT !.tr = Append(@, <<verb, what>>)]

\* ------------------------------------------------------------------------
\* The logging module, as far as LoggerBootstrapper uses it.
\* W is the world a method runs in: lg (loggers), hp (handlers), fs (files),
\* cf (configs), rn (_root_logger_name), acc (accepted), tr (statements run),
\* ex (an exception is propagating to the caller), ln (the logger in use),
\* fl (the calls <<method, handler role>> that raise in this run).
\* ------------------------------------------------------------------------

\* Handler.__init__ draws a new object: the lowest free slot of the pool.
NewId(W) ==
  CHOOSE i \in HandlerIds :
    /\ W.hp[i].kind = "Free"
    /\ \A j \in HandlerIds : W.hp[j].kind = "Free" => i <= j

\* MemoryHandler(capacity, target=None, flushLevel=CRITICAL)
NewMemoryHandler(capacity) ==
  [FreeSlot EXCEPT !.kind = "Memory", !.owner = "manager", !.capacity = capacity]

\* logging.StreamHandler(sys.stdout)
NewStreamHandler ==
  [FreeSlot EXCEPT !.kind = "Stream", !.owner = "manager"]

\* RotatingFileHandler(filename, maxBytes, backupCount)
NewRotatingFileHandler(path, maxBytes, backupCount) ==
  [FreeSlot EXCEPT !.kind = "RotatingFile", !.owner = "manager", !.path = path,
                   !.maxBytes = maxBytes, !.backupCount = backupCount]

\* Handler.setLevel(level)
HandlerSetLevel(W, h, lvl) ==
  Did([W EXCEPT !.hp[h].level = lvl], "setLevel", Role(W, h))

\* Logger.setLevel(level)
LoggerSetLevel(W, n, lvl) == [W EXCEPT !.lg[n].level = lvl]

\* logger = logging.getLogger(name); logger.propagate = False
\* (the opening lines of every method; ln is the logger the method works on)
GetLogger(W, n) == [W EXCEPT !.ln = n, !.lg[n].propagate = FALSE]

\* Logger.addHandler: appends unless the handler is already in the list.
AddHandler(W, n, h) ==
  Did(IF h \in Range(W.lg[n].handlers) THEN W
      ELSE [W EXCEPT !.lg[n].handlers = Append(@, h)],
      "addHandler", Role(W, h))

\* A call that raises: it has no effect and the exception propagates.
Raise(W, verb, what) == [Did(W, verb, what) EXCEPT !.ex = TRUE]

\* try: <call> except Exception: pass
Swallow(W) == [W EXCEPT !.ex = FALSE]

\* Logger.removeHandler: removes the handler if it is in the list.
RemoveHandler(W, n, h) ==
  IF <<"removeHandler", Role(W, h)>> \in W.fl THEN Raise(W, "removeHandler failed", Role(W, h))
  ELSE Did([W EXCEPT !.lg[n].handlers = SelectSeq(@, LAMBDA x : x # h)],
           "removeHandler", Role(W, h))

\* emit() of the handlers that write somewhere: a RotatingFileHandler appends
\* the record to its file; console output and NullHandler keep no state.
Emit(W, h, rec) ==
  IF W.hp[h].kind = "RotatingFile"
  THEN [W EXCEPT !.fs[W.hp[h].path] = Append(@, rec)]
  ELSE W

\* MemoryHandler.flush: with a target, every buffered record is handed to
\* target.handle (no level test) in buffer order and the buffer is cleared;
\* without a target nothing happens.
RECURSIVE Drain(_, _, _, _)
Drain(W, target, buffer, i) ==
  IF i > Len(buffer) THEN W
  ELSE Drain(Emit(W, target, buffer[i]), target, buffer, i + 1)

MemoryFlush(W, h) ==
  IF W.hp[h].target # NoHandler
  THEN [Drain(W, W.hp[h].target, W.hp[h].buffer, 1) EXCEPT !.hp[h].buffer = <<>>]
  ELSE W

\* MemoryHandler.shouldFlush
ShouldFlush(W, h, rec) ==
  Len(W.hp[h].buffer) >= W.hp[h].capacity \/ rec.lvl >= CRITICAL

\* Handler.handle(record)
Handle(W, h, rec) ==
  IF W.hp[h].kind = "Memory"
  THEN LET W1 == [W EXCEPT !.hp[h].buffer = Append(@, rec)]
       IN  IF ShouldFlush(W1, h, rec) THEN MemoryFlush(W1, h) ELSE W1
  ELSE Emit(W, h, rec)

\* Handler.flush()
Flush(W, h) ==
  IF <<"flush", Role(W, h)>> \in W.fl THEN Raise(W, "flush failed", Role(W, h))
  ELSE Did(IF W.hp[h].kind = "Memory" THEN MemoryFlush(W, h) ELSE W, "flush", Role(W, h))

\* Handler.close(); a MemoryHandler flushes, then drops its target.
Close(W, h) ==
  LET W1 == IF W.hp[h].kind = "Memory"
            THEN [MemoryFlush(W, h) EXCEPT !.hp[h].target = NoHandler]
            ELSE W
  IN  IF <<"close", Role(W, h)>> \in W.fl THEN Raise(W, "close failed", Role(W, h))
      ELSE Did([W1 EXCEPT !.hp[h].closed = TRUE], "close", Role(W, h))

\* Logger.getEffectiveLevel: a logger left at NOTSET takes the level of the
\* Python root logger, WARNING.
EffectiveLevel(W, n) ==
  IF W.lg[n].level # NOTSET THEN W.lg[n].level ELSE WARNING

IsEnabledFor(W, n, lvl) == lvl >= EffectiveLevel(W, n)

\* Logger.callHandlers: every handler of the logger whose level admits the record.
RECURSIVE CallHandlers(_, _, _, _)
CallHandlers(W, hs, rec, i) ==
  IF i > Len(hs) THEN W
  ELSE CallHandlers(IF rec.lvl >= W.hp[hs[i]].level THEN Handle(W, hs[i], rec) ELSE W,
                    hs, rec, i + 1)

\* Bookkeeping of the records logger n accepted since its bootstrap began.
Accept(W, n, rec) ==
  IF W.acc[n].on THEN [W EXCEPT !.acc[n].recs = Append(@, rec)] ELSE W

StartAccepting(W, n) == [W EXCEPT !.acc[n] = [on |-> TRUE, recs |-> <<>>]]
StopAccepting(W, n) == [W EXCEPT !.acc[n] = [on |-> FALSE, recs |-> <<>>]]

\* logger.log(level, msg)
Log(W, n, lvl, msg) ==
  LET W0 == Did(W, "log", msg)
      rec == Record(msg, lvl)
  IN  IF IsEnabledFor(W0, n, lvl)
      THEN CallHandlers(Accept(W0, n, rec), W0.lg[n].handlers, rec, 1)
      ELSE W0

LogDebug(W, n, msg) == Log(W, n, DEBUG, msg)

\* setattr(logger, ATTR, value)
SetMemoryAttr(W, n, h) == Did([W EXCEPT !.lg[n].memory_handler = h], "set_memory_handler", Role(W, h))
SetConsoleAttr(W, n, h) == Did([W EXCEPT !.lg[n].console_handler = h], "set_console_handler", Role(W, h))
SetFileAttr(W, n, h) == Did([W EXCEPT !.lg[n].file_handler = h], "set_file_handler", Role(W, h))
SetBootstrapped(W, n, b) ==
  Did([W EXCEPT !.lg[n].bootstrapped = b], "set_bootstrapped", IF b THEN "True" ELSE "False")

\* _set_root_logger_name(name)
SetRootLoggerName(W, name) == [W EXCEPT !.rn = name]

\* ------------------------------------------------------------------------
\* LoggerBootstrapper
\* ------------------------------------------------------------------------

\* bootstrap(): creation and attachment of the MemoryHandler.
AttachMemoryHandler(W, m, n) ==
  IF \E h \in Range(W.lg[n].handlers) : IsMemoryHandler(W, h) THEN W
  ELSE LET h  == NewId(W)
           W1 == [W EXCEPT !.hp[h] = NewMemoryHandler(W.cf[m].buffer_capacity)]
           W2 == HandlerSetLevel(W1, h, W.cf[m].level)
           W3 == AddHandler(W2, n, h)
       IN  SetMemoryAttr(W3, n, h)

\* bootstrap() and update_config(): creation and attachment of the console handler.
AttachConsoleHandler(W, m, n, note) ==
  LET h  == NewId(W)
      W1 == [W EXCEPT !.hp[h] = NewStreamHandler]
      W2 == HandlerSetLevel(W1, h, W.cf[m].level)
      W3 == AddHandler(W2, n, h)
      W4 == SetConsoleAttr(W3, n, h)
  IN  LogDebug(W4, n, note)

\* bootstrap() on a logger that is not bootstrapped yet.
BootstrapBody(W, m, n) ==
  LET W1 == LoggerSetLevel(StartAccepting(W, n), n, W.cf[m].level)
      W2 == LogDebug(AttachMemoryHandler(W1, m, n), n, "Logger bootstrap started")
      W3 == IF W2.cf[m].console /\ ~IsStreamHandler(W2, W2.lg[n].console_handler)
            THEN AttachConsoleHandler(W2, m, n, "Console handler attached")
            ELSE W2
  IN  LogDebug(SetBootstrapped(W3, n, TRUE), n, "Logger bootstrap completed")

\* Mutant: bootstrap() without its already-initialized test.
BootstrapOnUnguarded(W, m, n) == BootstrapBody(W, m, n)

\* bootstrap() after logging.getLogger.
BootstrapOn(W, m, n) ==
  IF W.lg[n].bootstrapped
  THEN Did(LogDebug(W, n, "Logger bootstrap skipped - already initialized"),
           "return", "bootstrap skipped")
  ELSE BootstrapBody(W, m, n)

\* LoggerBootstrapper.bootstrap
Bootstrap(W, m) == BootstrapOn(GetLogger(W, W.cf[m].name), m, W.cf[m].name)

\* Mutant: update_config() takes the new configuration's name as it comes.
KeepNameNot(W, m, c) == c

\* update_config(): the name of the stored configuration wins over the new one.
KeepName(W, m, c) ==
  IF c.name # W.cf[m].name THEN [c EXCEPT !.name = W.cf[m].name] ELSE c

\* Mutant: the console handler is forgotten but stays attached and open.
DetachConsoleForget(W, n, h) ==
  LogDebug(SetConsoleAttr(W, n, NoHandler), n, "Console handler detached (reconfigured)")

\* update_config(): the console handler is removed, closed and forgotten.
DetachConsoleHandler(W, n, h) ==
  LET W1 == IF IsStreamHandler(W, h)
            THEN Swallow(Close(Swallow(RemoveHandler(W, n, h)), h))
            ELSE W
      W2 == SetConsoleAttr(W1, n, NoHandler)
  IN  LogDebug(W2, n, "Console handler detached (reconfigured)")

\* Mutant: update_config() without its final loop.
AlignLevelsNot(W, hs, lvl, i) == W

\* update_config(): the final loop over list(logger.handlers).
RECURSIVE AlignLevels(_, _, _, _)
AlignLevels(W, hs, lvl, i) ==
  IF i > Len(hs) THEN W
  ELSE AlignLevels(IF IsMemoryHandler(W, hs[i]) \/ IsRotatingFileHandler(W, hs[i])
                      \/ IsStreamHandler(W, hs[i])
                   THEN HandlerSetLevel(W, hs[i], lvl) ELSE W,
                   hs, lvl, i + 1)

\* Mutant: update_config() also resizes the MemoryHandler to the new capacity.
UpdateBootstrappedResizes(W, m, n, c) ==
  LET mh == W.lg[n].memory_handler
      W0 == IF IsMemoryHandler(W, mh) THEN [W EXCEPT !.hp[mh].capacity = c.buffer_capacity] ELSE W
      W3 == IF IsMemoryHandler(W0, mh) THEN HandlerSetLevel(W0, mh, c.level) ELSE W0
      ch == W3.lg[n].console_handler
      has_console == IsStreamHandler(W3, ch)
      W4 == IF c.console /\ ~has_console
            THEN AttachConsoleHandler(W3, m, n, "Console handler attached (reconfigured)")
            ELSE W3
      W5 == IF ~c.console /\ has_console THEN DetachConsoleHandler(W4, n, ch) ELSE W4
  IN  AlignLevels(W5, W5.lg[n].handlers, c.level, 1)

\* update_config() on a bootstrapped logger: the handlers follow the new
\* configuration c.
UpdateBootstrapped(W, m, n, c) ==
  LET mh == W.lg[n].memory_handler
      W3 == IF IsMemoryHandler(W, mh) THEN HandlerSetLevel(W, mh, c.level) ELSE W
      ch == W3.lg[n].console_handler
      has_console == IsStreamHandler(W3, ch)
      W4 == IF c.console /\ ~has_console
            THEN AttachConsoleHandler(W3, m, n, "Console handler attached (reconfigured)")
            ELSE W3
      W5 == IF ~c.console /\ has_console THEN DetachConsoleHandler(W4, n, ch) ELSE W4
  IN  AlignLevels(W5, W5.lg[n].handlers, c.level, 1)

\* update_config(): the configuration is stored and the logger takes its level.
StoreConfig(W, m, c) ==
  LoggerSetLevel(GetLogger(SetRootLoggerName([W EXCEPT !.cf[m] = c], c.name), c.name),
                 c.name, c.level)

\* Mutant: update_config() without its return on a logger not bootstrapped.
UpdateConfigUnguarded(W, m, c0) ==
  UpdateBootstrapped(StoreConfig(W, m, KeepName(W, m, c0)), m, W.cf[m].name,
                     KeepName(W, m, c0))

\* LoggerBootstrapper.update_config
UpdateConfig(W, m, c0) ==
  LET c  == KeepName(W, m, c0)
      W2 == StoreConfig(W, m, c)
  IN  IF ~W2.lg[c.name].bootstrapped THEN Did(W2, "return", "not bootstrapped")
      ELSE UpdateBootstrapped(W2, m, c.name, c)

\* Mutant: the handoff without setTarget(file_handler).
HandOffNoTarget(W, n, mh, fh) ==
  LET W1 == LogDebug(W, n, "Flushing memory buffer to file")
      W2 == Close(RemoveHandler(Flush(W1, mh), n, mh), mh)
  IN  SetMemoryAttr(W2, n, NoHandler)

\* Mutant: the handoff drains the MemoryHandler and leaves it attached.
HandOffKeepsBuffer(W, n, mh, fh) ==
  LET W1 == LogDebug(W, n, "Flushing memory buffer to file")
      W2 == Did([W1 EXCEPT !.hp[mh].target = fh], "setTarget", "buffer")
  IN  Flush(W2, mh)

\* enable_file_logging(): the buffered records go to the file handler and the
\* MemoryHandler is removed, closed and forgotten.
HandOff(W, n, mh, fh) ==
  LET W1 == LogDebug(W, n, "Flushing memory buffer to file")
      W2 == Did([W1 EXCEPT !.hp[mh].target = fh], "setTarget", "buffer")
      W3 == Flush(W2, mh)
      W4 == RemoveHandler(W3, n, mh)
  IN  IF W3.ex THEN W3
      ELSE IF W4.ex THEN W4
      ELSE SetMemoryAttr(Swallow(Close(W4, mh)), n, NoHandler)

\* enable_file_logging(): the RotatingFileHandler is built for target_path, takes
\* over the buffered records and is attached.
AttachFileHandler(W, m, n, target_path) ==
  LET fh == NewId(W)
      mh == W.lg[n].memory_handler
      W1 == HandlerSetLevel(
              [W EXCEPT !.hp[fh] = NewRotatingFileHandler(target_path,
                          W.cf[m].rotate_max_bytes, W.cf[m].rotate_backup_count)],
              fh, W.cf[m].level)
      W2 == IF IsMemoryHandler(W, mh) THEN HandOff(W1, n, mh, fh) ELSE W1
  IN  IF W2.ex THEN W2
      ELSE LogDebug(LogDebug(SetFileAttr(AddHandler(W2, n, fh), n, fh), n, "File handler attached"),
                    n, "File logging enabled")

\* Mutant: enable_file_logging() without the test of the file handler attribute.
EnableBootstrappedNoCheck(W, m, n, file_path, io_ok) ==
  IF ~io_ok THEN Did([W EXCEPT !.ex = TRUE], "raise", "OSError")
  ELSE AttachFileHandler(W, m, n, IF file_path # "" THEN file_path ELSE W.cf[m].file_path)

\* Mutant: the MemoryHandler is released before the file is opened.
EnableBootstrappedDropsBuffer(W, m, n, file_path, io_ok) ==
  IF IsHandler(W, W.lg[n].file_handler)
  THEN Did(LogDebug(W, n, "File logging already enabled - skipping"),
           "return", "file logging skipped")
  ELSE IF ~io_ok
  THEN Did([SetMemoryAttr(Close(RemoveHandler(W, n, W.lg[n].memory_handler),
                                W.lg[n].memory_handler), n, NoHandler)
            EXCEPT !.ex = TRUE], "raise", "OSError")
  ELSE AttachFileHandler(W, m, n, IF file_path # "" THEN file_path ELSE W.cf[m].file_path)

\* enable_file_logging() from the test of the file handler attribute on.
EnableBootstrapped(W, m, n, file_path, io_ok) ==
  IF IsHandler(W, W.lg[n].file_handler)
  THEN Did(LogDebug(W, n, "File logging already enabled - skipping"),
           "return", "file logging skipped")
  ELSE IF ~io_ok THEN Did([W EXCEPT !.ex = TRUE], "raise", "OSError")
  ELSE AttachFileHandler(W, m, n, IF file_path # "" THEN file_path ELSE W.cf[m].file_path)

\* Mutant: enable_file_logging() without the defensive bootstrap().
BootstrapIfNeededNot(W, m, n) == W

\* enable_file_logging(): bootstrap() runs first on a logger not bootstrapped.
BootstrapIfNeeded(W, m, n) ==
  IF ~W.lg[n].bootstrapped THEN Bootstrap(W, m) ELSE W

\* LoggerBootstrapper.enable_file_logging; file_path "" is None, and io_ok tells
\* whether the directory can be made and the file opened.
EnableFileLogging(W, m, file_path, io_ok) ==
  EnableBootstrapped(BootstrapIfNeeded(GetLogger(W, W.cf[m].name), m, W.cf[m].name),
                     m, W.cf[m].name, file_path, io_ok)

\* shutdown(): flush of the managed handlers while they are attached.
RECURSIVE FlushManaged(_, _, _)
FlushManaged(W, hs, i) ==
  IF i > Len(hs) THEN W
  ELSE FlushManaged(IF IsHandler(W, hs[i]) THEN Swallow(Flush(W, hs[i])) ELSE W, hs, i + 1)

\* shutdown(): the three remove-close-forget blocks.
ReleaseMemory(W, n, h) ==
  IF IsMemoryHandler(W, h)
  THEN SetMemoryAttr(Swallow(Close(Swallow(RemoveHandler(W, n, h)), h)), n, NoHandler)
  ELSE W

\* Mutant: the console handler is looked up by class among the attached handlers.
ReleaseConsoleByClass(W, n, h) ==
  LET streams == { x \in Range(W.lg[n].handlers) : W.hp[x].kind = "Stream" }
  IN  IF streams = {} THEN W
      ELSE LET c == CHOOSE x \in streams : TRUE
           IN  SetConsoleAttr(Close(RemoveHandler(W, n, c), c), n, NoHandler)

ReleaseConsole(W, n, h) ==
  IF IsStreamHandler(W, h)
  THEN SetConsoleAttr(Swallow(Close(Swallow(RemoveHandler(W, n, h)), h)), n, NoHandler)
  ELSE W

\* Mutant: the file handler is removed and closed outside try/except.
ReleaseFileUnguarded(W, n, h) ==
  IF ~IsHandler(W, h) THEN W
  ELSE IF RemoveHandler(W, n, h).ex THEN RemoveHandler(W, n, h)
  ELSE IF Close(RemoveHandler(W, n, h), h).ex THEN Close(RemoveHandler(W, n, h), h)
  ELSE SetFileAttr(Close(RemoveHandler(W, n, h), h), n, NoHandler)

ReleaseFile(W, n, h) ==
  IF IsHandler(W, h)
  THEN SetFileAttr(Swallow(Close(Swallow(RemoveHandler(W, n, h)), h)), n, NoHandler)
  ELSE W

\* Mutant: shutdown() releases the handlers and leaves the bootstrapped mark set.
ReleaseManagedKeepsMark(W, n) ==
  LET mh == W.lg[n].memory_handler
      ch == W.lg[n].console_handler
      fh == W.lg[n].file_handler
      W1 == FlushManaged(W, <<mh, ch, fh>>, 1)
  IN  StopAccepting(ReleaseFile(ReleaseConsole(ReleaseMemory(W1, n, mh), n, ch), n, fh), n)

\* shutdown(): the managed handlers are flushed, released and the logger is
\* marked as not bootstrapped.
ReleaseManaged(W, n) ==
  LET mh == W.lg[n].memory_handler
      ch == W.lg[n].console_handler
      fh == W.lg[n].file_handler
      W1 == FlushManaged(W, <<mh, ch, fh>>, 1)
      W2 == ReleaseFile(ReleaseConsole(ReleaseMemory(W1, n, mh), n, ch), n, fh)
  IN  StopAccepting(SetBootstrapped(W2, n, FALSE), n)

\* Mutant: the final diagnostics are logged after the handlers are released.
ShutdownLogsLast(W, m) ==
  LET n == W.cf[m].name
  IN  LogDebug(LogDebug(ReleaseManaged(GetLogger(W, n), n), n, "Logger shutdown started"),
               n, "Logger shutdown completed")

\* Mutant: every handler attached to the logger is removed and closed.
RECURSIVE CloseAll(_, _, _, _)
CloseAll(W, n, hs, i) ==
  IF i > Len(hs) THEN W
  ELSE CloseAll(Close(RemoveHandler(W, n, hs[i]), hs[i]), n, hs, i + 1)

ShutdownCloseAll(W, m) ==
  LET n  == W.cf[m].name
      W1 == LogDebug(LogDebug(GetLogger(W, n), n, "Logger shutdown started"),
                     n, "Logger shutdown completed")
  IN  ReleaseManaged(CloseAll(W1, n, W1.lg[n].handlers, 1), n)

\* LoggerBootstrapper.shutdown
Shutdown(W, m) ==
  LET n  == W.cf[m].name
      W1 == LogDebug(GetLogger(W, n), n, "Logger shutdown started")
  IN  ReleaseManaged(LogDebug(W1, n, "Logger shutdown completed"), n)

\* ------------------------------------------------------------------------
\* The state machine
\* ------------------------------------------------------------------------

\* Handler objects nothing refers to any more are reclaimed.  A collaborator
\* keeps a reference to the handlers it attached.
Referenced(W) ==
  UNION { Range(W.lg[n].handlers) \cup
          {W.lg[n].memory_handler, W.lg[n].console_handler, W.lg[n].file_handler}
          : n \in LoggerNames }
  \cup { W.hp[h].target : h \in HandlerIds }

Collect(W) ==
  [W EXCEPT !.hp = [h \in HandlerIds |->
      IF W.hp[h].owner = "manager" /\ h \notin Referenced(W) THEN FreeSlot ELSE W.hp[h]]]

World ==
  [lg |-> loggers, hp |-> heap, fs |-> files, cf |-> config,
   rn |-> root_logger_name, acc |-> accepted, tr |-> <<>>, ex |-> FALSE, ln |-> "",
   fl |-> {}]

\* The state after W ran as operation op of manager m with argument arg and
\* left the application's module state a.
CommitWith(W, op, m, arg, a) ==
  LET C == Collect(W) IN
  /\ steps < MaxSteps
  /\ steps' = steps + 1
  /\ loggers' = C.lg
  /\ heap' = C.hp
  /\ files' = C.fs
  /\ config' = C.cf
  /\ root_logger_name' = C.rn
  /\ accepted' = C.acc
  /\ last' = [op |-> op, m |-> m, logger |-> C.ln, arg |-> arg, trace |-> C.tr, raised |-> C.ex]
  /\ pc' = pc
  /\ app' = a

\* The state after W ran as operation op of manager m with argument arg.
Commit(W, op, m, arg) == CommitWith(W, op, m, arg, app)

\* create_bootstrapper(config) has run for manager 1: __init__ stores the
\* configuration and sets the root logger name.
Init ==
  \E c \in Configs :
    /\ c.name = "app"
    /\ c.buffer_capacity = 2
    /\ loggers = [n \in LoggerNames |-> FreshLogger]
    /\ heap = [h \in HandlerIds |-> FreeSlot]
    /\ files = [p \in Paths |-> <<>>]
    /\ config = [m \in Managers |-> c]
    /\ root_logger_name = c.name
    /\ emitted = 0
    /\ steps = 0
    /\ accepted = [n \in LoggerNames |-> [on |-> FALSE, recs |-> <<>>]]
    /\ last = [op |-> "create_bootstrapper", m |-> 1, logger |-> c.name, arg |-> "",
               trace |-> <<>>, raised |-> FALSE]
    /\ pc = Idle
    /\ app = NoApp

DoBootstrap(m) ==
  /\ Commit(Bootstrap(World, m), "bootstrap", m, "")
  /\ UNCHANGED emitted

DoUpdateConfig(m, cs) ==
  \E c \in cs :
       Commit(UpdateConfig(World, m, c), "update_config", m, c.name)
  /\ UNCHANGED emitted

DoEnableFileLogging(m) ==
  \E p \in PathArgs, io_ok \in BOOLEAN :
       Commit(EnableFileLogging(World, m, p, io_ok), "enable_file_logging", m, p)
  /\ UNCHANGED emitted

DoShutdown(m) ==
  /\ Commit(Shutdown(World, m), "shutdown", m, "")
  /\ UNCHANGED emitted

\* The application logs a message on its root logger.
AppLog ==
  /\ emitted < Len(UserMsgs)
  /\ \E lvl \in EmitLevels :
       LET msg == UserMsgs[emitted + 1]
       IN  /\ Commit(Log([World EXCEPT !.ln = "app"], "app", lvl, msg), "log", 0, msg)
           /\ emitted' = emitted + 1

\* A collaborator attaches a handler of its own to the application's logger.
External(kind) ==
  [FreeSlot EXCEPT !.kind = kind, !.owner = "external"]

AttachExternal ==
  /\ \E kind \in ExternalKinds :
       LET h == NewId(World)
       IN  /\ ~\E x \in HandlerIds : heap[x].owner = "external" /\ heap[x].kind = kind
           /\ Commit(AddHandler([World EXCEPT !.hp[h] = External(kind), !.ln = "app"], "app", h),
                     "attach_external", 0, kind)
  /\ UNCHANGED emitted

Next ==
  \/ \E m \in Managers : DoBootstrap(m)
  \/ \E m \in Managers : DoUpdateConfig(m, NewConfigs)
  \/ \E m \in Managers : DoEnableFileLogging(m)
  \/ \E m \in Managers : DoShutdown(m)
  \/ AppLog
  \/ AttachExternal

Spec == Init /\ [][Next]_vars

\* The same program with a DEBUG severity threshold throughout: the manager is
\* created with level DEBUG and every new configuration keeps that level.
InitDebug == Init /\ config[1].level = DEBUG

DebugConfigs == { c \in NewConfigs : c.level = DEBUG }

NextDebug ==
  \/ \E m \in Managers : DoBootstrap(m)
  \/ \E m \in Managers : DoUpdateConfig(m, DebugConfigs)
  \/ \E m \in Managers : DoEnableFileLogging(m)
  \/ \E m \in Managers : DoShutdown(m)
  \/ AppLog
  \/ AttachExternal

SpecDebug == InitDebug /\ [][NextDebug]_vars

\* ------------------------------------------------------------------------
\* get_logger
\* ------------------------------------------------------------------------
IsNullHandler(W, h) == h # NoHandler /\ W.hp[h].kind = "Null"

\* logging.NullHandler()
NewNullHandler == [FreeSlot EXCEPT !.kind = "Null", !.owner = "silent"]

\* Mutant: a NullHandler is added whether or not the logger has one.
EnsureNullHandlerAlways(W, name) ==
  AddHandler([W EXCEPT !.hp[NewId(W)] = NewNullHandler], name, NewId(W))

\* _get_silent_logger(): a NullHandler is added unless the logger has one.
EnsureNullHandler(W, name) ==
  IF \E h \in Range(W.lg[name].handlers) : IsNullHandler(W, h) THEN W
  ELSE AddHandler([W EXCEPT !.hp[NewId(W)] = NewNullHandler], name, NewId(W))

\* _get_silent_logger(name)
GetSilentLogger(W, name) ==
  LET W1 == [W EXCEPT !.ln = name, !.lg[name].propagate = (name # W.rn)]
  IN  IF ~W1.lg[name].bootstrapped
      THEN LoggerSetLevel(EnsureNullHandler(W1, name), name, NOTSET)
      ELSE W1

\* get_logger(name): "" asks for the application's root logger.
GetLoggerByName(W, name) ==
  GetSilentLogger(W, IF name # "" THEN name ELSE W.rn)

\* Names the application passes to get_logger.
GetLoggerArgs == {"", "other"}

DoGetLogger ==
  /\ \E name \in GetLoggerArgs :
       Commit(GetLoggerByName(World, name), "get_logger", 0, name)
  /\ UNCHANGED emitted

\* Configurations of the first profile under the stored name.
SameNameConfigs == { c \in NewConfigs : c.name = "app" /\ c.buffer_capacity = 2 }

\* The lifecycle with get_logger calls in between.
NextGet ==
  \/ \E m \in Managers : DoBootstrap(m)
  \/ \E m \in Managers : DoUpdateConfig(m, SameNameConfigs)
  \/ \E m \in Managers : DoEnableFileLogging(m)
  \/ \E m \in Managers : DoShutdown(m)
  \/ DoGetLogger

SpecGet == Init /\ [][NextGet]_vars

\* ------------------------------------------------------------------------
\* The lifecycle with failing handler calls
\* ------------------------------------------------------------------------
\* The calls on managed handlers that may raise: flush() and close() of the
\* handler and removeHandler() of the logger.  Each operation is run with every
\* set of failing calls among those it can make.
FaultVerbs == {"flush", "removeHandler", "close"}

WorldWith(F) == [World EXCEPT !.fl = F]

\* Roles of the handlers the attributes of manager m's logger hold.
HeldRoles(m) ==
  LET lg == loggers[config[m].name]
  IN  { Role(World, h) : h \in {lg.memory_handler, lg.console_handler, lg.file_handler} \ {NoHandler} }

DoUpdateConfigFaulty(m) ==
  /\ \E c \in SameNameConfigs \cap DebugConfigs,
        F \in SUBSET ({"removeHandler", "close"} \X {"console"}) :
       Commit(UpdateConfig(WorldWith(F), m, c), "update_config", m, c.name)
  /\ UNCHANGED emitted

DoEnableFileLoggingFaulty(m) ==
  /\ \E F \in SUBSET (FaultVerbs \X {"buffer"}) :
       Commit(EnableFileLogging(WorldWith(F), m, "", TRUE), "enable_file_logging", m, "")
  /\ UNCHANGED emitted

DoShutdownFaulty(m) ==
  /\ \E F \in SUBSET (FaultVerbs \X HeldRoles(m)) :
       Commit(Shutdown(WorldWith(F), m), "shutdown", m, "")
  /\ UNCHANGED emitted

NextFaults ==
  \/ \E m \in Managers : DoBootstrap(m)
  \/ \E m \in Managers : DoUpdateConfigFaulty(m)
  \/ \E m \in Managers : DoEnableFileLoggingFaulty(m)
  \/ \E m \in Managers : DoShutdownFaulty(m)
  \/ AppLog

SpecFaults == InitDebug /\ [][NextFaults]_vars

\* ------------------------------------------------------------------------
\* Two LoggerBootstrapper instances in one process
\* ------------------------------------------------------------------------
\* create_bootstrapper() has run twice: for manager 1 on the application's
\* logger, then for manager 2 on the same or on another logger.  Each __init__
\* stores its configuration and sets the root logger name.
Instances == {1, 2}

InitTwo ==
  \E c1 \in SameNameConfigs \cap DebugConfigs, c2 \in DebugConfigs :
    /\ c2.buffer_capacity = 2
    /\ loggers = [n \in LoggerNames |-> FreshLogger]
    /\ heap = [h \in HandlerIds |-> FreeSlot]
    /\ files = [p \in Paths |-> <<>>]
    /\ config = [m \in Instances |-> IF m = 1 THEN c1 ELSE c2]
    /\ root_logger_name = c2.name
    /\ emitted = 0
    /\ steps = 0
    /\ accepted = [n \in LoggerNames |-> [on |-> FALSE, recs |-> <<>>]]
    /\ last = [op |-> "create_bootstrapper", m |-> 2, logger |-> c2.name, arg |-> "",
               trace |-> <<>>, raised |-> FALSE]
    /\ pc = Idle
    /\ app = NoApp

NextTwo ==
  \/ \E m \in Instances : DoBootstrap(m)
  \/ \E m \in Instances : DoUpdateConfig(m, SameNameConfigs \cap DebugConfigs)
  \/ \E m \in Instances : DoEnableFileLogging(m)
  \/ \E m \in Instances : DoShutdown(m)
  \/ AppLog

SpecTwo == InitTwo /\ [][NextTwo]_vars

\* ------------------------------------------------------------------------
\* enable_file_logging() while another thread logs
\* ------------------------------------------------------------------------
\* One thread runs enable_file_logging() on a bootstrapped logger, statement by
\* statement; another thread logs on the same logger between any two of them.
\* Each call into the logging module is one step: Logger and Handler methods
\* hold the module's or the handler's lock for their whole body.

\* The process right after create_bootstrapper(c).
Created(c) ==
  [lg |-> [n \in LoggerNames |-> FreshLogger], hp |-> [h \in HandlerIds |-> FreeSlot],
   fs |-> [p \in Paths |-> <<>>], cf |-> [m \in Managers |-> c], rn |-> c.name,
   acc |-> [n \in LoggerNames |-> [on |-> FALSE, recs |-> <<>>]],
   tr |-> <<>>, ex |-> FALSE, ln |-> "", fl |-> {}]

\* bootstrap() has run; no thread is inside enable_file_logging() yet.
InitHandoff ==
  \E c \in SameNameConfigs :
    LET B == Bootstrap(Created(c), TheManager)
    IN  /\ loggers = B.lg
        /\ heap = B.hp
        /\ files = B.fs
        /\ config = B.cf
        /\ root_logger_name = B.rn
        /\ accepted = B.acc
        /\ emitted = 0
        /\ steps = 1
        /\ last = [op |-> "bootstrap", m |-> TheManager, logger |-> B.ln, arg |-> "",
                   trace |-> B.tr, raised |-> FALSE]
        /\ pc = Idle
        /\ app = NoApp

\* A statement of enable_file_logging() ran and left world W; the thread is at
\* position at, holding the file handler fh in a local variable.
Stepped(W, stmt, at, fh) ==
  /\ loggers' = W.lg
  /\ heap' = W.hp
  /\ files' = W.fs
  /\ config' = W.cf
  /\ root_logger_name' = W.rn
  /\ accepted' = W.acc
  /\ last' = [op |-> "enable_file_logging", m |-> TheManager, logger |-> W.ln, arg |-> stmt,
              trace |-> W.tr, raised |-> W.ex]
  /\ pc' = [at |-> at, fh |-> fh]
  /\ UNCHANGED <<emitted, steps, app>>

InHandoff == [World EXCEPT !.ln = config[TheManager].name]

\* Entry up to file_handler.setLevel: the logger is bootstrapped and has no file
\* handler, the file is opened and the RotatingFileHandler built.
HandoffCreate ==
  /\ pc.at = "idle"
  /\ loggers[config[TheManager].name].bootstrapped
  /\ ~IsHandler(World, loggers[config[TheManager].name].file_handler)
  /\ LET W  == GetLogger(World, config[TheManager].name)
         fh == NewId(W)
         cf == config[TheManager]
     IN  Stepped(HandlerSetLevel([W EXCEPT !.hp[fh] = NewRotatingFileHandler(cf.file_path,
                                      cf.rotate_max_bytes, cf.rotate_backup_count)], fh, cf.level),
                 "RotatingFileHandler", "created", fh)

\* logger.debug("Flushing memory buffer to file"), or the jump to addHandler
\* when the attribute holds no MemoryHandler.
HandoffNote ==
  /\ pc.at = "created"
  /\ IF IsMemoryHandler(World, loggers[InHandoff.ln].memory_handler)
     THEN Stepped(LogDebug(InHandoff, InHandoff.ln, "Flushing memory buffer to file"),
                  "debug", "noted", pc.fh)
     ELSE Stepped(InHandoff, "skip", "closed", pc.fh)

\* memory_handler.setTarget(file_handler)
HandoffSetTarget ==
  /\ pc.at = "noted"
  /\ Stepped(Did([InHandoff EXCEPT !.hp[loggers[InHandoff.ln].memory_handler].target = pc.fh],
                 "setTarget", "buffer"),
             "setTarget", "targeted", pc.fh)

\* memory_handler.flush()
HandoffFlush ==
  /\ pc.at = "targeted"
  /\ Stepped(Flush(InHandoff, loggers[InHandoff.ln].memory_handler), "flush", "flushed", pc.fh)

\* logger.removeHandler(memory_handler)
HandoffRemove ==
  /\ pc.at = "flushed"
  /\ Stepped(RemoveHandler(InHandoff, InHandoff.ln, loggers[InHandoff.ln].memory_handler),
             "removeHandler", "removed", pc.fh)

\* memory_handler.close() in try/except and setattr(logger, MEMORY, None)
HandoffClose ==
  /\ pc.at = "removed"
  /\ Stepped(SetMemoryAttr(Swallow(Close(InHandoff, loggers[InHandoff.ln].memory_handler)),
                           InHandoff.ln, NoHandler),
             "close", "closed", pc.fh)

\* logger.addHandler(file_handler) and setattr(logger, FILE, file_handler)
AddFileHandler(W, n, fh) == SetFileAttr(AddHandler(W, n, fh), n, fh)

HandoffAdd ==
  /\ pc.at = "closed"
  /\ Stepped(AddFileHandler(InHandoff, InHandoff.ln, pc.fh), "addHandler", "added", pc.fh)

\* The two closing diagnostics; enable_file_logging() returns.
HandoffReturn ==
  /\ pc.at = "added"
  /\ Stepped(LogDebug(LogDebug(InHandoff, InHandoff.ln, "File handler attached"),
                      InHandoff.ln, "File logging enabled"),
             "return", "done", pc.fh)

\* Another thread logs the application's next message.
ThreadLog ==
  /\ emitted < Len(UserMsgs)
  /\ \E lvl \in EmitLevels :
       LET W == Log([World EXCEPT !.ln = "app"], "app", lvl, UserMsgs[emitted + 1])
       IN  /\ loggers' = W.lg
           /\ heap' = W.hp
           /\ files' = W.fs
           /\ accepted' = W.acc
           /\ last' = [op |-> "log", m |-> 0, logger |-> "app", arg |-> UserMsgs[emitted + 1],
                       trace |-> W.tr, raised |-> W.ex]
  /\ emitted' = emitted + 1
  /\ UNCHANGED <<config, root_logger_name, steps, pc, app>>

NextHandoff ==
  \/ HandoffCreate
  \/ HandoffNote
  \/ HandoffSetTarget
  \/ HandoffFlush
  \/ HandoffRemove
  \/ HandoffClose
  \/ HandoffAdd
  \/ HandoffReturn
  \/ ThreadLog

SpecHandoff == InitHandoff /\ [][NextHandoff]_vars

\* ------------------------------------------------------------------------
\* Texts.  A str is the sequence of its characters.
\* ------------------------------------------------------------------------
LowerCase == <<"a", "b", "c", "d", "e", "f", "g", "h", "i", "j", "k", "l", "m", "n", "o", "p", "q", "r", "s", "t", "u", "v", "w", "x", "y", "z">>
UpperCase == <<"A", "B", "C", "D", "E", "F", "G", "H", "I", "J", "K", "L", "M", "N", "O", "P", "Q", "R", "S", "T", "U", "V", "W", "X", "Y", "Z">>

\* str.upper()
UpperChar(c) ==
  IF \E i \in 1..Len(LowerCase) : LowerCase[i] = c
  THEN UpperCase[CHOOSE i \in 1..Len(LowerCase) : LowerCase[i] = c]
  ELSE c

Upper(s) == [i \in 1..Len(s) |-> UpperChar(s[i])]

\* Characters str.strip() removes and the regular expression \s matches.
Whitespace == {" ", "\t", "\n"}

\* str.strip()
RECURSIVE LStrip(_)
LStrip(s) == IF s # <<>> /\ Head(s) \in Whitespace THEN LStrip(Tail(s)) ELSE s

RECURSIVE RStrip(_)
RStrip(s) ==
  IF s # <<>> /\ s[Len(s)] \in Whitespace THEN RStrip(SubSeq(s, 1, Len(s) - 1)) ELSE s

Strip(s) == RStrip(LStrip(s))

\* dict.get(key, default) of a dict given as its set of <<key, value>> items.
DictGet(items, key, default) ==
  IF \E e \in items : e[1] = key
  THEN (CHOOSE e \in items : e[1] = key)[2]
  ELSE default

\* ------------------------------------------------------------------------
\* resolve_log_level (logger.py)
\* ------------------------------------------------------------------------
LOG_LEVEL_MAP ==
  { <<<<"C", "R", "I", "T", "I", "C", "A", "L">>, CRITICAL>>,
    <<<<"E", "R", "R", "O", "R">>, ERROR>>,
    <<<<"W", "A", "R", "N", "I", "N", "G">>, WARNING>>,
    <<<<"W", "A", "R", "N">>, WARNING>>,
    <<<<"I", "N", "F", "O">>, INFO>>,
    <<<<"D", "E", "B", "U", "G">>, DEBUG>>,
    <<<<"N", "O", "T", "S", "E", "T">>, NOTSET>> }

\* Mutant: the text is upper-cased but not stripped.
resolve_log_level_unstripped(level, default) ==
  DictGet(LOG_LEVEL_MAP, Upper(level), default)

\* normalized = (level or "").upper().strip(); _LOG_LEVEL_MAP.get(normalized, default)
\* (level is a str here, which "or" leaves as it is)
resolve_log_level(level, default) ==
  DictGet(LOG_LEVEL_MAP, Strip(Upper(level)), default)

\* ------------------------------------------------------------------------
\* parse_size_to_bytes (helpers.py)
\* ------------------------------------------------------------------------
AsciiDigits == <<"0", "1", "2", "3", "4", "5", "6", "7", "8", "9">>

\* A decimal digit outside ASCII: ARABIC-INDIC DIGIT THREE.
ArabicIndicThree == "U+0663"
\* One element that stands for 4301 consecutive characters "9".
NinesRun == "9 x 4301"
NinesRunLength == 4301

\* The regular expression \d of a str pattern: any Unicode decimal digit.
IsDigit(c) ==
  \/ \E i \in 1..Len(AsciiDigits) : AsciiDigits[i] = c
  \/ c \in {ArabicIndicThree, NinesRun}

\* Number of characters an element stands for.
CharCount(c) == IF c = NinesRun THEN NinesRunLength ELSE 1

RECURSIVE TextLen(_)
TextLen(s) == IF s = <<>> THEN 0 ELSE CharCount(Head(s)) + TextLen(Tail(s))

\* Value of one decimal digit, as int() reads it.
DigitValue(c) ==
  IF c = ArabicIndicThree THEN 3
  ELSE (CHOOSE i \in 1..Len(AsciiDigits) : AsciiDigits[i] = c) - 1

RECURSIVE DecimalValue(_)
DecimalValue(ds) ==
  IF ds = <<>> THEN 0
  ELSE 10 * DecimalValue(SubSeq(ds, 1, Len(ds) - 1)) + DigitValue(ds[Len(ds)])

\* sys.int_info.default_max_str_digits: int() of a longer str raises ValueError.
MaxStrDigits == 4300

\* Results of a call: a value, None, or an exception that reaches the caller.
None == [kind |-> "None"]
IntResult(v) == [kind |-> "int", value |-> v]
ValueErrorRaised == [kind |-> "ValueError"]

\* int(match.group(1))
IntOf(ds) ==
  IF TextLen(ds) > MaxStrDigits THEN ValueErrorRaised ELSE IntResult(DecimalValue(ds))

\* First position from i on that holds no digit (\d+ is greedy), no whitespace (\s*).
RECURSIVE DigitsEnd(_, _)
DigitsEnd(s, i) == IF i <= Len(s) /\ IsDigit(s[i]) THEN DigitsEnd(s, i + 1) ELSE i

RECURSIVE SpaceEnd(_, _)
SpaceEnd(s, i) == IF i <= Len(s) /\ s[i] \in Whitespace THEN SpaceEnd(s, i + 1) ELSE i

multipliers ==
  { <<<<"B">>, 1>>, <<<<"K", "B">>, 1024>>, <<<<"M", "B">>, 1024 * 1024>>, <<<<"G", "B">>, 1024 * 1024 * 1024>> }

\* size * multipliers[unit], past int(match.group(1))
Scaled(size, unit) ==
  IF size.kind = "int" THEN IntResult(size.value * DictGet(multipliers, unit, 0)) ELSE size

\* re.match(r"^(\d+)\s*(B|KB|MB|GB)$", value.strip().upper())
parse_size_to_bytes(value) ==
  LET raw  == Strip(Upper(value))
      d    == DigitsEnd(raw, 1)
      unit == SubSeq(raw, SpaceEnd(raw, d), Len(raw))
  IN  IF d = 1 \/ ~\E e \in multipliers : e[1] = unit THEN None
      ELSE Scaled(IntOf(SubSeq(raw, 1, d - 1)), unit)

\* ------------------------------------------------------------------------
\* resolve_log_config_from_state (logger_resolver.py)
\* ------------------------------------------------------------------------
DEFAULT_LOG_LEVEL == INFO
DEFAULT_ROTATE_MAX_BYTES == 5 * 1024 * 1024
DEFAULT_BUFFER_CAPACITY == 500

\* "x or y" of an Optional[int] x: None and 0 are both false.
Or(x, y) == IF x.kind = "int" /\ x.value # 0 THEN x.value ELSE y

\* parse_size_to_bytes(state.log.rotation) or DEFAULT_ROTATE_MAX_BYTES
RotateMaxBytes(rotation) ==
  LET parsed == parse_size_to_bytes(rotation)
  IN  IF parsed.kind = "ValueError" THEN parsed
      ELSE IntResult(Or(parsed, DEFAULT_ROTATE_MAX_BYTES))

\* resolve_log_config_from_state(state), state.log given as log
resolve_log_config_from_state(log) ==
  LET level == DictGet(LOG_LEVEL_MAP, Strip(Upper(log.level)), DEFAULT_LOG_LEVEL)
      rotate_max_bytes == RotateMaxBytes(log.rotation)
  IN  IF rotate_max_bytes.kind = "ValueError" THEN rotate_max_bytes
      ELSE [kind |-> "LogConfig",
            name |-> "nicegui_app_template", level |-> level, console |-> log.console,
            buffer_capacity |-> DEFAULT_BUFFER_CAPACITY, file_path |-> log.path,
            rotate_max_bytes |-> rotate_max_bytes.value,
            rotate_backup_count |-> log.retention]

\* ------------------------------------------------------------------------
\* apply_settings_to_state (settings.py), the logging keys
\* ------------------------------------------------------------------------
\* Values of the parsed TOML: a str, an int, a bool, or no such key.
Missing == [t |-> "missing"]
Str(text) == [t |-> "str", s |-> text]
Num(n) == [t |-> "int", n |-> n]
Bool(b) == [t |-> "bool", b |-> b]

\* _deep_get(raw, "app.log.<key>", default)
DeepGet(value, default) == IF value.t = "missing" THEN default ELSE value

\* str(n) of an int n >= 0
RECURSIVE DecimalText(_)
DecimalText(n) ==
  IF n < 10 THEN <<AsciiDigits[n + 1]>>
  ELSE DecimalText(n \div 10) \o <<AsciiDigits[(n % 10) + 1]>>

\* str(x)
StrOf(x) ==
  IF x.t = "str" THEN x.s
  ELSE IF x.t = "int" THEN DecimalText(x.n)
  ELSE IF x.b THEN <<"T", "r", "u", "e">> ELSE <<"F", "a", "l", "s", "e">>

\* bool(x)
BoolOf(x) ==
  IF x.t = "bool" THEN x.b
  ELSE IF x.t = "int" THEN x.n # 0
  ELSE x.s # <<>>

\* int(x); of a str: the digits inside optional whitespace (texts with a sign or
\* an underscore are not among the inputs), ValueError otherwise.
IntOfValue(x) ==
  IF x.t = "int" THEN IntResult(x.n)
  ELSE IF x.t = "bool" THEN IntResult(IF x.b THEN 1 ELSE 0)
  ELSE IF Strip(x.s) # <<>> /\ DigitsEnd(Strip(x.s), 1) = Len(Strip(x.s)) + 1
  THEN IntOf(Strip(x.s))
  ELSE ValueErrorRaised

\* _parse_size_to_bytes of settings.py, the same statements as the helper's.
settings_parse_size_to_bytes(value) == parse_size_to_bytes(value)

allowed_levels ==
  { <<"C", "R", "I", "T", "I", "C", "A", "L">>, <<"E", "R", "R", "O", "R">>, <<"W", "A", "R", "N", "I", "N", "G">>, <<"W", "A", "R", "N">>, <<"I", "N", "F", "O">>, <<"D", "E", "B", "U", "G">>, <<"N", "O", "T", "S", "E", "T">> }

\* LogState() of state.py; the path logs/app.log is p1 here.
DefaultLogState ==
  [path |-> "p1", level |-> <<"I", "N", "F", "O">>, console |-> TRUE, buffer_capacity |-> 500,
   rotation |-> <<"5", " ", "M", "B">>, retention |-> 3]

\* Outcome of apply_settings_to_state: the state as it is left, and whether an
\* exception reached the caller.
Applied(st) == [raised |-> FALSE, log |-> st]
Interrupted(st) == [raised |-> TRUE, log |-> st]

\* The assignments of path, level and console.
ApplyTexts(st, raw) ==
  [st EXCEPT !.path = StrOf(DeepGet(raw.path, Str(st.path))),
             !.level = Strip(Upper(StrOf(DeepGet(raw.level, Str(st.level))))),
             !.console = BoolOf(DeepGet(raw.console, Bool(st.console)))]

\* The block of light validations: a bad value falls back, nothing raises.
Validate(st) ==
  LET s1 == IF st.level \notin allowed_levels THEN [st EXCEPT !.level = <<"I", "N", "F", "O">>] ELSE st
      size == settings_parse_size_to_bytes(s1.rotation)
      s2 == IF size.kind = "None" THEN [s1 EXCEPT !.rotation = <<"5", " ", "M", "B">>] ELSE s1
      s3 == IF s2.retention < 1 THEN [s2 EXCEPT !.retention = 3] ELSE s2
  IN  IF size.kind = "ValueError" THEN Interrupted(s1)
      ELSE Applied(IF s3.buffer_capacity < 50 THEN [s3 EXCEPT !.buffer_capacity = 50] ELSE s3)

\* The assignments of rotation and retention and the validations.
ApplyRest(st, raw) ==
  LET s5 == [st EXCEPT !.rotation = Strip(StrOf(DeepGet(raw.rotation, Str(st.rotation))))]
      retention == IntOfValue(DeepGet(raw.retention, Num(st.retention)))
  IN  IF retention.kind # "int" THEN Interrupted(s5)
      ELSE Validate([s5 EXCEPT !.retention = retention.value])

\* apply_settings_to_state(state, raw), from "Logging" on; st is state.log and
\* raw the table app.log.
apply_settings_to_state(st, raw) ==
  LET s3 == ApplyTexts(st, raw)
      capacity == IntOfValue(DeepGet(raw.buffer_capacity, Num(s3.buffer_capacity)))
  IN  IF capacity.kind # "int" THEN Interrupted(s3)
      ELSE ApplyRest([s3 EXCEPT !.buffer_capacity = capacity.value], raw)

\* ------------------------------------------------------------------------
\* Calls of the pure functions
\* ------------------------------------------------------------------------
\* str.lower() and str.capitalize(), used to spell the arguments.
LowerChar(c) ==
  IF \E i \in 1..Len(UpperCase) : UpperCase[i] = c
  THEN LowerCase[CHOOSE i \in 1..Len(UpperCase) : UpperCase[i] = c]
  ELSE c

Lower(s) == [i \in 1..Len(s) |-> LowerChar(s[i])]
Capitalized(s) == <<Head(s)>> \o Lower(Tail(s))
Spellings(s) == {s, Lower(s), Capitalized(s)}

\* What the caller is promised: an int (of that value when exact), or None.
Exactly(v) == [kind |-> "int", exact |-> TRUE, value |-> v]
SomeInt == [kind |-> "int", exact |-> FALSE, value |-> 0]
Nothing == [kind |-> "None", exact |-> FALSE, value |-> 0]

\* Level texts: every name of the map in three spellings, and other tokens.
LevelPads == { <<>>, <<" ">>, <<"\t", " ">>, <<"\n">> }
LevelWords ==
  UNION { { [text |-> t, expect |-> Exactly(e[2])] : t \in Spellings(e[1]) } : e \in LOG_LEVEL_MAP }
OtherLevelWords ==
  { [text |-> t, expect |-> Nothing] :
      t \in { <<>>, <<"n", "o", "t", "-", "a", "-", "l", "e", "v", "e", "l">>, <<"V", "E", "R", "B", "O", "S", "E">>, <<"W", "A", "R", "N", " ", "I", "N", "G">>, <<"I", "N", "F", "O", "1">>, <<"T", "R", "A", "C", "E">> } }
LevelDefaults == {INFO, DEBUG, CRITICAL}

LevelCalls ==
  { [op |-> "call", fn |-> "resolve_log_level", text |-> l \o w.text \o r,
     default |-> d, expect |-> w.expect, result |-> None] :
      l \in LevelPads, r \in LevelPads, w \in LevelWords \cup OtherLevelWords, d \in LevelDefaults }

\* Size texts: number, optional whitespace, unit, inside optional whitespace;
\* products above 2^31 - 1 are left out.
SizePads == { <<>>, <<" ">> }
SizeGaps == { <<>>, <<" ">>, <<"\t">> }
Numerals ==
  { [text |-> <<"0">>, value |-> 0], [text |-> <<"1">>, value |-> 1],
    [text |-> <<"7">>, value |-> 7], [text |-> <<"1", "2">>, value |-> 12],
    [text |-> <<"0", "0", "1">>, value |-> 1] }
UnitWords ==
  UNION { { [text |-> t, multiplier |-> e[2]] : t \in Spellings(e[1]) } : e \in multipliers }

ValidSizes ==
  { [text |-> l \o n.text \o g \o u.text \o r, expect |-> Exactly(n.value * u.multiplier)] :
      l \in SizePads, r \in SizePads, g \in SizeGaps, u \in UnitWords,
      n \in { x \in Numerals : x.value <= 1 } }
  \cup
  { [text |-> l \o n.text \o g \o u.text \o r, expect |-> Exactly(n.value * u.multiplier)] :
      l \in SizePads, r \in SizePads, g \in SizeGaps,
      u \in { x \in UnitWords : x.multiplier <= 1024 * 1024 }, n \in Numerals }

\* A number of 4301 digits.
LongSizes ==
  { [text |-> <<NinesRun>> \o g \o u.text, expect |-> SomeInt] : g \in SizeGaps, u \in UnitWords }

\* Missing unit, missing number, fraction, sign, unknown unit, trailing
\* garbage, inner garbage, empty text, a digit that is not an ASCII digit.
InvalidSizes ==
  { [text |-> t, expect |-> Nothing] :
      t \in { <<"5">>, <<"M", "B">>, <<"1", ".", "5", " ", "M", "B">>, <<"5", ".", "0", " ", "M", "B">>, <<"-", "1", " ", "M", "B">>, <<"+", "1", " ", "M", "B">>, <<"5", " ", "T", "B">>, <<"5", " ", "M", "B", "x">>, <<"5", " ", "K", " ", "B">>, <<"5", " ", "M", "B", " ", "1">>, <<>>, <<" ">>,
              <<ArabicIndicThree, " ", "M", "B">> } }

SizeCalls ==
  { [op |-> "call", fn |-> "parse_size_to_bytes", text |-> x.text,
     expect |-> x.expect, result |-> None] : x \in ValidSizes \cup LongSizes \cup InvalidSizes }

\* state.log values: a rotation text without padding, a level text, the rest.
Rotations ==
  { x \in ValidSizes \cup InvalidSizes :
      /\ x.text = Strip(x.text)
      /\ ArabicIndicThree \notin Range(x.text)
      /\ \A i \in 1..Len(x.text) : x.text[i] # "\t" /\ x.text[i] = UpperChar(x.text[i]) }
LogStates ==
  { [level |-> lv, rotation |-> x.text, console |-> c, path |-> p, retention |-> 3] :
      lv \in { <<"d", "e", "b", "u", "g">>, <<"b", "o", "g", "u", "s">> }, x \in Rotations, c \in BOOLEAN, p \in Paths }
ConfigCalls ==
  { [op |-> "call", fn |-> "resolve_log_config_from_state", log |-> st,
     expect |-> (CHOOSE x \in Rotations : x.text = st.rotation).expect, result |-> None] :
      st \in LogStates }

\* Tables app.log of a settings file.  Each key is missing, valid or invalid;
\* want is what the state must hold for the key afterwards: the value of a valid
\* key, the default of LogState for a missing or invalid one.
KeyChoice(value, want) == [value |-> value, want |-> want]

PathChoices ==
  { KeyChoice(Missing, DefaultLogState.path), KeyChoice(Str("p2"), "p2") }
LevelChoices ==
  { KeyChoice(Missing, DefaultLogState.level),
    KeyChoice(Str(<<" ", "d", "e", "b", "u", "g", " ">>), <<"D", "E", "B", "U", "G">>),
    KeyChoice(Str(<<"I", "N", "V", "A", "L", "I", "D">>), DefaultLogState.level),
    KeyChoice(Num(10), DefaultLogState.level) }
ConsoleChoices ==
  { KeyChoice(Missing, DefaultLogState.console), KeyChoice(Bool(FALSE), FALSE) }
CapacityChoices ==
  { KeyChoice(Missing, DefaultLogState.buffer_capacity), KeyChoice(Num(1000), 1000),
    KeyChoice(Num(1), DefaultLogState.buffer_capacity),
    KeyChoice(Str(<<"a", "b", "c">>), DefaultLogState.buffer_capacity) }
RotationChoices ==
  { KeyChoice(Missing, DefaultLogState.rotation),
    KeyChoice(Str(<<"1", "0", " ", "M", "B">>), <<"1", "0", " ", "M", "B">>),
    KeyChoice(Str(<<"X", "Y", "Z">>), DefaultLogState.rotation) }
RetentionChoices ==
  { KeyChoice(Missing, DefaultLogState.retention), KeyChoice(Num(5), 5),
    KeyChoice(Num(0), DefaultLogState.retention),
    KeyChoice(Str(<<"x">>), DefaultLogState.retention) }

SettingsTables ==
  { [path |-> p, level |-> l, console |-> c, buffer_capacity |-> b, rotation |-> r, retention |-> k] :
      p \in PathChoices, l \in LevelChoices, c \in ConsoleChoices, b \in CapacityChoices,
      r \in RotationChoices, k \in RetentionChoices }

LogKeys == {"path", "level", "console", "buffer_capacity", "rotation", "retention"}

SettingsCalls ==
  { [op |-> "call", fn |-> "apply_settings_to_state",
     raw |-> [k \in LogKeys |-> t[k].value], want |-> [k \in LogKeys |-> t[k].want],
     result |-> None] : t \in SettingsTables }

InitPure ==
  \E call \in LevelCalls \cup SizeCalls \cup ConfigCalls \cup SettingsCalls :
    /\ loggers = [n \in LoggerNames |-> FreshLogger]
    /\ heap = [h \in HandlerIds |-> FreeSlot]
    /\ files = [p \in Paths |-> <<>>]
    /\ config = [m \in Managers |-> CHOOSE c \in Configs : TRUE]
    /\ root_logger_name = "app"
    /\ emitted = 0
    /\ steps = 0
    /\ accepted = [n \in LoggerNames |-> [on |-> FALSE, recs |-> <<>>]]
    /\ last = call
    /\ pc = Idle
    /\ app = NoApp

\* The call pending in last returns r.
Return(r) ==
  /\ last.op = "call"
  /\ last' = [last EXCEPT !.op = "return", !.result = r]
  /\ UNCHANGED <<loggers, heap, files, config, root_logger_name, accepted, emitted, steps, pc, app>>

DoResolveLogLevel ==
  /\ last.fn = "resolve_log_level"
  /\ Return(IntResult(resolve_log_level(last.text, last.default)))

DoParseSizeToBytes ==
  /\ last.fn = "parse_size_to_bytes"
  /\ Return(parse_size_to_bytes(last.text))

DoResolveLogConfig ==
  /\ last.fn = "resolve_log_config_from_state"
  /\ Return(resolve_log_config_from_state(last.log))

DoApplySettings ==
  /\ last.fn = "apply_settings_to_state"
  /\ Return(apply_settings_to_state(DefaultLogState, last.raw))

NextPure ==
  \/ DoResolveLogLevel
  \/ DoParseSizeToBytes
  \/ DoResolveLogConfig
  \/ DoApplySettings

SpecPure == InitPure /\ [][NextPure]_vars

\* ------------------------------------------------------------------------
\* bootstrap_infrastructure and _on_shutdown (app.py)
\* ------------------------------------------------------------------------
\* LogConfig(): what create_bootstrapper() gives the manager.  The registry of
\* this model knows the logger nicegui_app_template as app and the path
\* logs/app.log as p1.
DefaultLogConfig ==
  [name |-> TheLogger, level |-> INFO, console |-> TRUE, buffer_capacity |-> 500,
   file_path |-> "p1", rotate_max_bytes |-> 5 * 1024 * 1024, rotate_backup_count |-> 3]

\* The LogConfig object of a resolver result.
AsLogConfig(r) ==
  [name |-> IF r.name = "nicegui_app_template" THEN TheLogger ELSE r.name,
   level |-> r.level, console |-> r.console, buffer_capacity |-> r.buffer_capacity,
   file_path |-> r.file_path, rotate_max_bytes |-> r.rotate_max_bytes,
   rotate_backup_count |-> r.rotate_backup_count]

\* The settings file: absent, or the table app.log it parses to.
NotFound == [t |-> "missing"]

AppTables ==
  { [path |-> p, level |-> l, console |-> Missing, buffer_capacity |-> b, rotation |-> r,
     retention |-> Missing] :
      p \in {Missing, Str("p2")},
      l \in {Missing, Str(<<"d", "e", "b", "u", "g">>)},
      b \in {Missing, Num(1000), Str(<<"a", "b", "c">>)},
      r \in {Missing, Str(<<NinesRun, " ", "M", "B">>)} }

SettingsFiles == {NotFound} \cup { [t |-> "table", raw |-> x] : x \in AppTables }

\* Methods of app.py work on a pair: the world W and the module state a.
Pair(W, a) == [w |-> W, app |-> a]

\* log.<level>(msg) on the logger get_logger() returned.
AppLogs(P, lvl, msg) == Pair(Log(P.w, P.w.rn, lvl, msg), P.app)

\* A call of app.py into the logger lifecycle or the settings, as the trace shows it.
Calls(P, what) == Pair(Did(P.w, "call", what), P.app)

\* load_settings(state=state, logger=log): the file is absent, or it is applied
\* and apply_settings_to_state returns or raises.
LoadSettings(P, file) ==
  LET P1 == Calls(P, "load_settings")
      r  == apply_settings_to_state(P.app.log, file.raw)
  IN  IF file.t = "missing"
      THEN AppLogs(Pair(P1.w, [P1.app EXCEPT !.last_load_ok = FALSE]), ERROR, "Settings file not found")
      ELSE IF r.raised
      THEN AppLogs(Pair(P1.w, [P1.app EXCEPT !.last_load_ok = FALSE, !.log = r.log]),
                   ERROR, "Failed to load settings")
      ELSE AppLogs(Pair(P1.w, [P1.app EXCEPT !.last_load_ok = TRUE, !.log = r.log]),
                   INFO, "Settings loaded successfully")

\* create_bootstrapper(); bootstrap(); get_logger(); the first diagnostic.
StartLogger(P) ==
  LET W0 == SetRootLoggerName([P.w EXCEPT !.cf[TheManager] = DefaultLogConfig], DefaultLogConfig.name)
      W1 == Bootstrap(Calls(Pair(W0, P.app), "bootstrap").w, TheManager)
  IN  AppLogs(Pair(GetLoggerByName(W1, ""), P.app), DEBUG,
              "Application infrastructure bootstrap started")

\* The two notes after load_settings.
NoteLoad(P) ==
  LET P1 == AppLogs(P, DEBUG, "Configuration phase completed")
  IN  IF ~P.app.last_load_ok
      THEN AppLogs(P1, WARNING, "Settings load failed; using default values")
      ELSE P1

\* enable_file_logging() inside try/except Exception, with the note of either
\* outcome, and the registration of the bootstrapper.
EnableAndRegister(P, io_ok) ==
  LET W  == EnableFileLogging(Calls(P, "enable_file_logging").w, TheManager, "", io_ok)
      P1 == IF W.ex
            THEN AppLogs(Pair(Swallow(W), P.app), ERROR, "Failed to enable file logging")
            ELSE AppLogs(Pair(W, P.app), INFO, "Logging ready")
  IN  Pair(P1.w, [P1.app EXCEPT !.bootstrapper = TRUE])

\* resolve_log_config_from_state(state), update_config(log_config) and the rest;
\* an exception of the resolver reaches the caller of bootstrap_infrastructure.
Reconfigure(P, io_ok) ==
  LET r == resolve_log_config_from_state(P.app.log)
  IN  IF r.kind = "ValueError"
      THEN Pair([Did(P.w, "raise", "ValueError") EXCEPT !.ex = TRUE], P.app)
      ELSE EnableAndRegister(
             Pair(UpdateConfig(Calls(P, "update_config").w, TheManager, AsLogConfig(r)), P.app),
             io_ok)

\* bootstrap_infrastructure() with no bootstrapper registered.
InfrastructureBody(P, file, io_ok) ==
  Reconfigure(NoteLoad(LoadSettings(StartLogger(P), file)), io_ok)

\* Mutant: bootstrap_infrastructure() without the test of _bootstrapper.
BootstrapInfrastructureUnguarded(P, file, io_ok) == InfrastructureBody(P, file, io_ok)

\* bootstrap_infrastructure()
BootstrapInfrastructure(P, file, io_ok) ==
  IF P.app.bootstrapper THEN Pair(Did(P.w, "return", "already bootstrapped"), P.app)
  ELSE InfrastructureBody(P, file, io_ok)

\* _on_shutdown()
OnShutdown(P) ==
  LET P1 == AppLogs(Pair(GetLoggerByName(P.w, ""), P.app), INFO,
                    "[LIFECYCLE] Application shutdown requested")
  IN  IF ~P.app.bootstrapper
      THEN AppLogs(P1, DEBUG, "Shutdown called without active bootstrapper")
      ELSE Pair(Swallow(Shutdown(Calls(P1, "shutdown").w, TheManager)),
                [P1.app EXCEPT !.bootstrapper = FALSE])

\* The process imported app.py: no bootstrapper, AppState() not loaded yet, the
\* logging module untouched.
InitApp ==
  /\ loggers = [n \in LoggerNames |-> FreshLogger]
  /\ heap = [h \in HandlerIds |-> FreeSlot]
  /\ files = [p \in Paths |-> <<>>]
  /\ config = [m \in Managers |-> DefaultLogConfig]
  /\ root_logger_name = DefaultLogConfig.name
  /\ emitted = 0
  /\ steps = 0
  /\ accepted = [n \in LoggerNames |-> [on |-> FALSE, recs |-> <<>>]]
  /\ last = [op |-> "import", m |-> 0, logger |-> "", arg |-> "", trace |-> <<>>, raised |-> FALSE]
  /\ pc = Idle
  /\ app = [bootstrapper |-> FALSE, last_load_ok |-> FALSE, log |-> DefaultLogState]

DoBootstrapInfrastructure ==
  /\ \E file \in SettingsFiles, io_ok \in BOOLEAN :
       LET P == BootstrapInfrastructure(Pair(World, app), file, io_ok)
       IN  CommitWith(P.w, "bootstrap_infrastructure", 0, file.t, P.app)
  /\ UNCHANGED emitted

DoOnShutdown ==
  /\ LET P == OnShutdown(Pair(World, app))
     IN  CommitWith(P.w, "_on_shutdown", 0, "", P.app)
  /\ UNCHANGED emitted

NextApp ==
  \/ DoBootstrapInfrastructure
  \/ DoOnShutdown
  \/ AppLog

SpecApp == InitApp /\ [][NextApp]_vars

\* ------------------------------------------------------------------------
\* Properties
\* ------------------------------------------------------------------------

\* The step is a call of operation op.
StepOf(op) == steps' = steps + 1 /\ last'.op = op

Has(tr, ev) == \E i \in 1..Len(tr) : tr[i] = ev
IsPrefix(a, b) == Len(a) <= Len(b) /\ SubSeq(b, 1, Len(a)) = a
Msgs(recs) == { recs[i].msg : i \in 1..Len(recs) }

Attached(n) == Range(loggers[n].handlers)
BufferSinks(n) == { h \in Attached(n) : heap[h].kind = "Memory" }
ConsoleSinks(n) == { h \in Attached(n) : heap[h].kind = "Stream" /\ heap[h].owner = "manager" }
FileSinks(n) == { h \in Attached(n) : heap[h].kind = "RotatingFile" }
ManagedSinks(n) == { h \in Attached(n) : heap[h].owner = "manager" }

\* Which handlers are attached to which logger, the bootstrapper's attributes
\* and the handler objects, leaving out the records a buffer holds.
HandlerState ==
  [n \in LoggerNames |->
     [handlers |-> loggers[n].handlers,
      memory_handler |-> loggers[n].memory_handler,
      console_handler |-> loggers[n].console_handler,
      file_handler |-> loggers[n].file_handler,
      bootstrapped |-> loggers[n].bootstrapped,
      objects |-> [h \in Attached(n) |-> [heap[h] EXCEPT !.buffer = <<>>]]]]

\* C1: bootstrap() is idempotent.  A call on a logger that is not bootstrapped
\* leaves exactly one buffer sink attached and one console sink exactly if the
\* stored console flag is set; a call on a bootstrapped logger returns without
\* changing the handler state, so N calls leave what the first one left.
C1_BootstrapIdempotent ==
  [][StepOf("bootstrap") =>
       /\ ~loggers[TheLogger].bootstrapped =>
            /\ Cardinality(BufferSinks(TheLogger)') = 1
            /\ Cardinality(ConsoleSinks(TheLogger)') = IF config[TheManager].console THEN 1 ELSE 0
            /\ loggers'[TheLogger].bootstrapped
       /\ loggers[TheLogger].bootstrapped => HandlerState' = HandlerState]_vars

C1_Witness ==
  /\ last.op = "bootstrap"
  /\ Has(last.trace, <<"return", "bootstrap skipped">>)
  /\ config[TheManager].console
  /\ Cardinality(BufferSinks(TheLogger)) = 1
  /\ Cardinality(ConsoleSinks(TheLogger)) = 1

\* The file enable_file_logging(file_path) writes to.
TargetPath(arg) == IF arg # "" THEN arg ELSE config[TheManager].file_path

\* C2: the handoff preserves order and content.  When enable_file_logging()
\* succeeds on a logger that holds a buffer sink, the file receives every record
\* the logger accepted since bootstrap, in emission order, ahead of anything
\* written later (files only grow at their end), and the buffer sink is gone.
C2_HandoffPreservesOrder ==
  [][/\ \A p \in Paths : IsPrefix(files[p], files'[p])
     /\ (/\ StepOf("enable_file_logging")
         /\ ~last'.raised
         /\ loggers[TheLogger].memory_handler # NoHandler)
        => /\ IsPrefix(files[TargetPath(last'.arg)] \o accepted[TheLogger].recs,
                       files'[TargetPath(last'.arg)])
           /\ BufferSinks(TheLogger)' = {}
           /\ loggers'[TheLogger].memory_handler = NoHandler]_vars

C2_Witness ==
  /\ last.op = "enable_file_logging"
  /\ BufferSinks(TheLogger) = {}
  /\ \E p \in Paths : \E i, j \in 1..Len(files[p]) :
       i < j /\ files[p][i].msg = "M1" /\ files[p][j].msg = "M2"


\* C3: enable_file_logging() never duplicates the file sink.  No logger ever has
\* more than one file sink attached, and a call made while the file handler
\* attribute is set leaves the handler state as it was.
C3_NoDuplicateFileSink ==
  /\ [](\A n \in LoggerNames : Cardinality(FileSinks(n)) <= 1)
  /\ [][(StepOf("enable_file_logging") /\ loggers[TheLogger].file_handler # NoHandler)
          => HandlerState' = HandlerState]_vars

C3_Witness ==
  /\ last.op = "enable_file_logging"
  /\ Has(last.trace, <<"return", "file logging skipped">>)
  /\ Cardinality(FileSinks(TheLogger)) = 1

\* Statements of shutdown() as they appear in last.trace.
SinkRoles == {"buffer", "console", "file"}
RoleOf(h) ==
  IF heap[h].kind = "Memory" THEN "buffer"
  ELSE IF heap[h].kind = "Stream" THEN "console" ELSE "file"
ShutdownNotes == { <<"log", "Logger shutdown started">>, <<"log", "Logger shutdown completed">> }
Flushes == { <<"flush", r>> : r \in SinkRoles }
Releases(r) == { <<"removeHandler", r>>, <<"close", r>> }
AllReleases == UNION { Releases(r) : r \in SinkRoles }
Marked == { <<"set_bootstrapped", "False">> }
\* Every statement of A in tr comes before every statement of B in tr.
AllBefore(tr, A, B) ==
  \A i, j \in 1..Len(tr) : (tr[i] \in A /\ tr[j] \in B) => i < j

\* C4: shutdown() works in a fixed order.  Both diagnostics are logged before any
\* sink is flushed or released (with a DEBUG threshold and a file sink attached
\* they are the two records the file gains); every managed sink is flushed before
\* any is released; the buffer sink is removed and closed before the console
\* sink, the console sink before the file sink; the not-bootstrapped mark comes
\* last; afterwards no managed sink, and so no file sink, is attached.
C4_ShutdownOrder ==
  [][StepOf("shutdown") =>
       LET tr == last'.trace
           fh == loggers[TheLogger].file_handler
       IN  /\ ShutdownNotes \subseteq Range(tr)
           /\ AllBefore(tr, ShutdownNotes, Flushes \cup AllReleases)
           /\ \A h \in ManagedSinks(TheLogger) :
                <<"flush", RoleOf(h)>> \in Range(tr) /\ Releases(RoleOf(h)) \subseteq Range(tr)
           /\ AllBefore(tr, Flushes, AllReleases)
           /\ AllBefore(tr, Releases("buffer"), Releases("console") \cup Releases("file"))
           /\ AllBefore(tr, Releases("console"), Releases("file"))
           /\ \A r \in SinkRoles : AllBefore(tr, {<<"removeHandler", r>>}, {<<"close", r>>})
           /\ AllBefore(tr, ShutdownNotes \cup Flushes \cup AllReleases, Marked)
           /\ tr[Len(tr)] \in Marked
           /\ ~loggers'[TheLogger].bootstrapped
           /\ ManagedSinks(TheLogger)' = {}
           /\ loggers'[TheLogger].file_handler = NoHandler
           /\ (fh # NoHandler /\ config[TheManager].level = DEBUG) =>
                files'[heap[fh].path] =
                  files[heap[fh].path] \o << Record("Logger shutdown started", DEBUG),
                                            Record("Logger shutdown completed", DEBUG) >>]_vars

C4_Witness ==
  /\ last.op = "shutdown"
  /\ Has(last.trace, <<"close", "buffer">>) \/ Has(last.trace, <<"close", "console">>)
  /\ Has(last.trace, <<"close", "file">>)
  /\ \E p \in Paths :
       Len(files[p]) > 0 /\ files[p][Len(files[p])].msg = "Logger shutdown completed"

\* C5: shutdown() is safe on a logger that is not bootstrapped (never
\* bootstrapped, or shut down before): it raises nothing, attaches and detaches
\* nothing, closes nothing and leaves the logger not bootstrapped.
C5_ShutdownSafe ==
  [][(StepOf("shutdown") /\ ~loggers[TheLogger].bootstrapped) =>
       /\ ~last'.raised
       /\ HandlerState' = HandlerState
       /\ ~loggers'[TheLogger].bootstrapped]_vars

C5_Witness ==
  /\ last.op = "shutdown"
  /\ steps >= 2
  /\ \A ev \in AllReleases : ~Has(last.trace, ev)
  /\ Attached(TheLogger) # {}
  /\ ~loggers[TheLogger].bootstrapped

\* C6: a handler a collaborator attached to the logger stays attached and open,
\* whatever the manager does.
C6_ExternalPreserved ==
  \A h \in HandlerIds :
    heap[h].owner = "external" => (h \in Attached(TheLogger) /\ ~heap[h].closed)

C6_Witness ==
  /\ last.op = "shutdown"
  /\ Has(last.trace, <<"close", "file">>)
  /\ \E h \in Attached(TheLogger) : heap[h].owner = "external" /\ ~heap[h].closed

\* C7: with a DEBUG threshold throughout, once shutdown() has closed the file
\* sink the log file holds each of the six lifecycle diagnostics.
LifecycleNotes ==
  { "Logger bootstrap started", "Logger bootstrap completed", "Enabling file logging",
    "File handler attached", "Logger shutdown started", "Logger shutdown completed" }

C7_DiagnosticsInFile ==
  (last.op = "shutdown" /\ Has(last.trace, <<"close", "file">>)) =>
    \E p \in Paths : LifecycleNotes \subseteq Msgs(files[p])

\* C8: the logger name is a stable identity.  The stored name is the one given
\* at construction, every lifecycle operation works on that logger, and the
\* logger of the other name never gets a handler or an attribute.
LifecycleOps == {"bootstrap", "update_config", "enable_file_logging", "shutdown"}

C8_StableLoggerName ==
  /\ config[TheManager].name = TheLogger
  /\ last.op \in LifecycleOps => last.logger = TheLogger
  /\ \A n \in LoggerNames \ {TheLogger} : loggers[n] = FreshLogger

C8_Witness ==
  /\ last.op = "update_config"
  /\ last.arg = "other"
  /\ loggers[TheLogger].bootstrapped
  /\ config[TheManager].name = TheLogger

\* The logger and every attached managed sink are at the stored level.
Uniform ==
  /\ loggers[TheLogger].level = config[TheManager].level
  /\ \A h \in ManagedSinks(TheLogger) : heap[h].level = config[TheManager].level

C10_ConsoleFollowsConfig ==
  /\ [](/\ Cardinality(ConsoleSinks(TheLogger)) <= 1
        /\ loggers[TheLogger].bootstrapped =>
             (ConsoleSinks(TheLogger) # {} <=> config[TheManager].console))
  /\ [][(/\ StepOf("update_config")
         /\ loggers[TheLogger].bootstrapped
         /\ ConsoleSinks(TheLogger) # {}
         /\ ~config'[TheManager].console)
        => /\ Has(last'.trace, <<"removeHandler", "console">>)
           /\ Has(last'.trace, <<"close", "console">>)
           /\ loggers'[TheLogger].console_handler = NoHandler]_vars

C10_Witness ==
  /\ last.op = "update_config"
  /\ Has(last.trace, <<"close", "console">>)
  /\ loggers[TheLogger].bootstrapped
  /\ ~config[TheManager].console
  /\ ConsoleSinks(TheLogger) = {}

\* C11: update_config() on a logger that is not bootstrapped stores the new
\* configuration (under the stored name) and sets the logger's level, nothing
\* else: no handler is attached, no attribute set, the logger is not marked
\* bootstrapped.  The next bootstrap() builds the buffer sink with the stored
\* capacity, the console sink exactly if the stored flag is set, all at the
\* stored level.
C11_ReconfigureUnbootstrapped ==
  [][/\ (StepOf("update_config") /\ ~loggers[TheLogger].bootstrapped) =>
          /\ \E c \in NewConfigs :
                /\ last'.arg = c.name
                /\ config'[TheManager] = [c EXCEPT !.name = TheLogger]
          /\ loggers' = [loggers EXCEPT ![TheLogger].level = config'[TheManager].level,
                                        ![TheLogger].propagate = FALSE]
          /\ heap' = heap
          /\ files' = files
     /\ (StepOf("bootstrap") /\ ~loggers[TheLogger].bootstrapped) =>
          /\ config' = config
          /\ \E h \in HandlerIds :
                /\ BufferSinks(TheLogger)' = {h}
                /\ heap'[h].capacity = config[TheManager].buffer_capacity
          /\ (ConsoleSinks(TheLogger)' # {}) <=> config[TheManager].console
          /\ \A h \in ManagedSinks(TheLogger)' : heap'[h].level = config[TheManager].level
          /\ loggers'[TheLogger].level = config[TheManager].level]_vars

\* update_config() changed capacity, level and console flag of a manager not
\* bootstrapped, and the bootstrap() after it built the sinks from them.
C11_Witness ==
  /\ steps = 2
  /\ last.op = "bootstrap"
  /\ \E h \in BufferSinks(TheLogger) : heap[h].capacity = 3 /\ heap[h].level = INFO
  /\ ConsoleSinks(TheLogger) # {}

\* The world in which a method runs after the method that ended in world W.
After(W) == [Collect(W) EXCEPT !.tr = <<>>, !.ex = FALSE, !.ln = "", !.fl = {}]

\* C12: enable_file_logging() is defensive.  On a logger that is not
\* bootstrapped it leaves the loggers, the handler objects and the files as
\* bootstrap() followed by enable_file_logging() leaves them; when it does not
\* raise, one file sink and no buffer sink are attached and the logger is
\* bootstrapped.
C12_DefensiveEnable ==
  [][(StepOf("enable_file_logging") /\ ~loggers[TheLogger].bootstrapped) =>
       LET B == After(Bootstrap(World, TheManager))
           E == Collect(EnableFileLogging(B, TheManager, last'.arg, ~last'.raised))
       IN  /\ B.lg[TheLogger].bootstrapped
           /\ loggers' = E.lg
           /\ heap' = E.hp
           /\ files' = E.fs
           /\ loggers'[TheLogger].bootstrapped
           /\ ~last'.raised =>
                /\ Cardinality(FileSinks(TheLogger)') = 1
                /\ BufferSinks(TheLogger)' = {}
                /\ loggers'[TheLogger].memory_handler = NoHandler]_vars

\* enable_file_logging() was the first call on the manager and the file holds
\* the diagnostics of the bootstrap() it ran.
C12_Witness ==
  /\ steps = 1
  /\ last.op = "enable_file_logging"
  /\ Cardinality(FileSinks(TheLogger)) = 1
  /\ \E p \in Paths : "Logger bootstrap started" \in Msgs(files[p])

\* The result r is what e promises.
Agrees(r, e) ==
  /\ r.kind = e.kind
  /\ (e.kind = "int" /\ e.exact) => r.value = e.value

Returned(fn) == last.op = "return" /\ last.fn = fn

\* C13: resolve_log_level trims and upper-cases the text, returns the severity
\* of CRITICAL, ERROR, WARNING, WARN (as WARNING), INFO, DEBUG and NOTSET in any
\* spelling and the default for every other token.
C13_LevelResolver ==
  Returned("resolve_log_level") =>
    last.result = IntResult(IF last.expect.kind = "int" THEN last.expect.value ELSE last.default)

\* resolve(" debug ", INFO) = DEBUG, resolve("not-a-level", INFO) = INFO and
\* WARN as WARNING have been computed.
C13_Witness ==
  /\ Returned("resolve_log_level")
  /\ last.default = INFO
  /\ \/ last.text = <<" ", "d", "e", "b", "u", "g", " ">> /\ last.result = IntResult(DEBUG)
     \/ last.text = <<"n", "o", "t", "-", "a", "-", "l", "e", "v", "e", "l">> /\ last.result = IntResult(INFO)
     \/ last.text = <<"w", "a", "r", "n">> /\ last.result = IntResult(WARNING)

\* C14: parse_size_to_bytes returns n * multiplier(U) for every number n >= 0
\* with unit U of B, KB, MB, GB in any case, whitespace around and between
\* allowed, and None for every other text; it raises nothing.
C14_SizeParser ==
  Returned("parse_size_to_bytes") => Agrees(last.result, last.expect)

\* C15: the resolved rotate_max_bytes is the parsed byte count for every rotation
\* text parse_size_to_bytes accepts, zero included, and DEFAULT_ROTATE_MAX_BYTES
\* when it returns None.
C15_RotationMapping ==
  Returned("resolve_log_config_from_state") =>
    /\ last.result.kind = "LogConfig"
    /\ last.result.rotate_max_bytes =
         IF last.expect.kind = "int" THEN last.expect.value ELSE DEFAULT_ROTATE_MAX_BYTES

NullSinks(n) == { h \in Attached(n) : heap[h].kind = "Null" }
NullSinksAfter(n) == { h \in Range(loggers'[n].handlers) : heap'[h].kind = "Null" }

\* C16: get_logger() is safe around the lifecycle.  It raises nothing; on a
\* logger that is not bootstrapped it leaves exactly one NullHandler attached,
\* adding one only if there was none and touching no other handler; on a
\* bootstrapped logger it changes neither the attached handlers, nor the handler
\* objects, nor the level.
C16_GetLoggerSafe ==
  [][StepOf("get_logger") =>
       LET n == last'.logger
       IN  /\ ~last'.raised
           /\ n = IF last'.arg = "" THEN root_logger_name ELSE last'.arg
           /\ ~loggers[n].bootstrapped =>
                /\ Cardinality(NullSinksAfter(n)) = 1
                /\ NullSinks(n) # {} => loggers'[n].handlers = loggers[n].handlers
                /\ IsPrefix(loggers[n].handlers, loggers'[n].handlers)
                /\ Len(loggers'[n].handlers) <= Len(loggers[n].handlers) + 1
           /\ loggers[n].bootstrapped =>
                /\ loggers'[n].handlers = loggers[n].handlers
                /\ loggers'[n].level = loggers[n].level
                /\ heap' = heap]_vars

\* get_logger() ran on the root logger before bootstrap, then while it was
\* bootstrapped at the stored level with its buffer sink attached.
C16_Witness ==
  /\ last.op = "get_logger"
  /\ last.logger = TheLogger
  /\ loggers[TheLogger].bootstrapped
  /\ loggers[TheLogger].level = config[TheManager].level
  /\ Cardinality(NullSinks(TheLogger)) = 1
  /\ BufferSinks(TheLogger) # {}

\* C17: a failed enable_file_logging() leaves the logging state usable.  When
\* making the directory or opening the file raises, the error reaches the
\* caller, no file sink is attached or recorded, no file is written, the logger
\* is bootstrapped with its buffer sink and, if the console flag is set, its
\* console sink attached; on a logger that was bootstrapped already, the handler
\* objects, the buffered records among them, are untouched.
C17_FailedEnableUsable ==
  [][(StepOf("enable_file_logging") /\ Has(last'.trace, <<"raise", "OSError">>)) =>
       /\ last'.raised
       /\ FileSinks(TheLogger)' = {}
       /\ loggers'[TheLogger].file_handler = NoHandler
       /\ files' = files
       /\ loggers'[TheLogger].bootstrapped
       /\ Cardinality(BufferSinks(TheLogger)') = 1
       /\ loggers'[TheLogger].memory_handler \in BufferSinks(TheLogger)'
       /\ (ConsoleSinks(TheLogger)' # {}) <=> config[TheManager].console
       /\ loggers[TheLogger].bootstrapped =>
            /\ loggers'[TheLogger].handlers = loggers[TheLogger].handlers
            /\ heap' = heap
            /\ accepted' = accepted]_vars

\* enable_file_logging() failed on a bootstrapped logger whose buffer holds an
\* application record and whose console sink is attached.
C17_Witness ==
  /\ last.op = "enable_file_logging"
  /\ last.raised
  /\ steps >= 3
  /\ ConsoleSinks(TheLogger) # {}
  /\ \E h \in BufferSinks(TheLogger) : "M1" \in Msgs(heap[h].buffer)

\* Calls that failed in the last operation.
Failed(verb, role) == Has(last.trace, <<verb \o " failed", role>>)
FlushOrCloseFailed ==
  \E r \in SinkRoles : Failed("flush", r) \/ Failed("close", r)
DetachFailed == \E r \in SinkRoles : Failed("removeHandler", r)

\* C18: no lifecycle operation lets an exception of a managed handler's flush()
\* or close() reach its caller.
C18_FlushCloseSwallowed ==
  (last.op \in LifecycleOps /\ FlushOrCloseFailed /\ ~DetachFailed) => ~last.raised

C20_BufferBounded ==
  \A h \in HandlerIds :
    heap[h].kind = "Memory" => Len(heap[h].buffer) <= heap[h].capacity

\* Records the step appended to the file at path p.
Written(p) == SubSeq(files'[p], Len(files[p]) + 1, Len(files'[p]))

\* C21: no record below the severity threshold reaches a file.  Every record a
\* step writes to a log file, the records enable_file_logging() drains from the
\* buffer among them, has a severity at or above the stored level at that time.
C21_FileAboveThreshold ==
  [][\A p \in Paths : \A i \in 1..Len(Written(p)) :
        Written(p)[i].lvl >= config'[TheManager].level]_vars

\* Buffer and file sinks of the logger as update_config() must leave them: which
\* objects are attached and recorded, capacity, path and rotation parameters.
SinkShape(lg, hp) ==
  [memory_handler |-> lg.memory_handler,
   file_handler |-> lg.file_handler,
   sinks |-> { [id |-> h, kind |-> hp[h].kind, capacity |-> hp[h].capacity, path |-> hp[h].path,
                maxBytes |-> hp[h].maxBytes, backupCount |-> hp[h].backupCount] :
               h \in { x \in Range(lg.handlers) : hp[x].kind \in {"Memory", "RotatingFile"} } }]

ReconfigureNotes ==
  { "Console handler attached (reconfigured)", "Console handler detached (reconfigured)" }

\* C22 as claimed: update_config() on a bootstrapped logger leaves the buffer
\* sink's presence, capacity and contents and the file sink's presence, path and
\* rotation parameters as they were.
C22_ReconfigureKeepsSinks ==
  [][(StepOf("update_config") /\ loggers[TheLogger].bootstrapped) =>
       /\ SinkShape(loggers'[TheLogger], heap') = SinkShape(loggers[TheLogger], heap)
       /\ \A h \in BufferSinks(TheLogger) : heap'[h].buffer = heap[h].buffer]_vars

\* C22 as amended: update_config() on a bootstrapped logger leaves the buffer
\* sink's presence and capacity and the file sink's presence, path and rotation
\* parameters as they were; the buffer keeps its records in order and gains at
\* most the diagnostic of a console sink attached or detached.
C22_ReconfigureKeepsShape ==
  [][(StepOf("update_config") /\ loggers[TheLogger].bootstrapped) =>
       /\ SinkShape(loggers'[TheLogger], heap') = SinkShape(loggers[TheLogger], heap)
       /\ \A h \in BufferSinks(TheLogger) :
            /\ IsPrefix(heap[h].buffer, heap'[h].buffer)
            /\ Len(heap'[h].buffer) <= Len(heap[h].buffer) + 1
            /\ \A i \in Len(heap[h].buffer) + 1 .. Len(heap'[h].buffer) :
                 heap'[h].buffer[i].msg \in ReconfigureNotes]_vars

\* update_config() stored another capacity and attached the console sink; the
\* buffer sink kept its capacity and gained the diagnostic.
C22_Witness ==
  /\ last.op = "update_config"
  /\ config[TheManager].buffer_capacity = 3
  /\ \E h \in BufferSinks(TheLogger) :
       /\ heap[h].capacity = 2
       /\ "M1" \in Msgs(heap[h].buffer)
       /\ "Console handler attached (reconfigured)" \in Msgs(heap[h].buffer)

\* C23: handler presence matches the lifecycle state.  The buffer sink and the
\* file sink are never attached together; the logger is bootstrapped exactly
\* while one of them is attached; the file sink is attached from an
\* enable_file_logging() that did not raise until the next shutdown().
C23_PresenceMatchesState ==
  /\ [](/\ Cardinality(BufferSinks(TheLogger)) + Cardinality(FileSinks(TheLogger)) <= 1
        /\ loggers[TheLogger].bootstrapped <=>
             Cardinality(BufferSinks(TheLogger)) + Cardinality(FileSinks(TheLogger)) = 1
        /\ loggers[TheLogger].memory_handler \in BufferSinks(TheLogger) \cup {NoHandler}
        /\ loggers[TheLogger].file_handler \in FileSinks(TheLogger) \cup {NoHandler})
  /\ [][steps' = steps + 1 =>
          (FileSinks(TheLogger)' # {} <=>
             IF last'.op = "shutdown" THEN FALSE
             ELSE IF last'.op = "enable_file_logging" /\ ~last'.raised THEN TRUE
             ELSE FileSinks(TheLogger) # {})]_vars

\* The logger went from buffer to file: enable_file_logging() succeeded on a
\* bootstrapped logger after an earlier call of the manager.
C23_Witness ==
  /\ last.op = "enable_file_logging"
  /\ ~last.raised
  /\ steps >= 3
  /\ loggers[TheLogger].bootstrapped
  /\ FileSinks(TheLogger) = {loggers[TheLogger].file_handler}
  /\ BufferSinks(TheLogger) = {}

\* The process as it is when manager TheManager has just been created with the
\* configuration it holds now: a logger nothing but collaborators touched, no
\* handler object of the manager.
IsExternal(h) == heap[h].owner = "external"

FreshWorld ==
  [World EXCEPT
     !.lg[TheLogger] = [FreshLogger EXCEPT !.handlers = SelectSeq(loggers[TheLogger].handlers, IsExternal)],
     !.hp = [h \in HandlerIds |-> IF IsExternal(h) THEN heap[h] ELSE FreeSlot]]

\* C24: shutdown() returns the manager to a state equivalent to the initial one.
\* The bootstrap() that follows a shutdown() is not skipped and leaves the
\* loggers and the handler objects as bootstrap() of a newly created manager
\* with the same configuration leaves them: one new buffer sink, a console sink
\* exactly if the console flag is set, no file sink.  The enable_file_logging()
\* that follows a shutdown() attaches a new file sink unless it raises.
C24_ShutdownResets ==
  [][/\ (StepOf("bootstrap") /\ last.op = "shutdown") =>
          LET F == Collect(Bootstrap(FreshWorld, TheManager))
          IN  /\ ~Has(last'.trace, <<"return", "bootstrap skipped">>)
              /\ loggers' = F.lg
              /\ heap' = F.hp
              /\ loggers'[TheLogger].bootstrapped
              /\ Cardinality(BufferSinks(TheLogger)') = 1
              /\ (ConsoleSinks(TheLogger)' # {}) <=> config[TheManager].console
              /\ FileSinks(TheLogger)' = {}
     /\ (StepOf("enable_file_logging") /\ last.op = "shutdown" /\ ~last'.raised) =>
          LET E == Collect(EnableFileLogging(FreshWorld, TheManager, last'.arg, TRUE))
          IN  /\ loggers' = E.lg
              /\ heap' = E.hp
              /\ FileSinks(TheLogger)' = {loggers'[TheLogger].file_handler}
              /\ ~heap'[loggers'[TheLogger].file_handler].closed]_vars

\* bootstrap() ran again after the shutdown() of a logger that wrote to a file.
C24_Witness ==
  /\ last.op = "bootstrap"
  /\ ~Has(last.trace, <<"return", "bootstrap skipped">>)
  /\ \E p \in Paths : "Logger shutdown completed" \in Msgs(files[p])
  /\ Cardinality(BufferSinks(TheLogger)) = 1
  /\ FileSinks(TheLogger) = {}

\* What manager m sees of its handler state: the attributes of its logger.
Seen(m) ==
  [bootstrapped |-> loggers[config[m].name].bootstrapped,
   memory_handler |-> loggers[config[m].name].memory_handler,
   console_handler |-> loggers[config[m].name].console_handler,
   file_handler |-> loggers[config[m].name].file_handler]

SeenAfter(m) ==
  [bootstrapped |-> loggers'[config'[m].name].bootstrapped,
   memory_handler |-> loggers'[config'[m].name].memory_handler,
   console_handler |-> loggers'[config'[m].name].console_handler,
   file_handler |-> loggers'[config'[m].name].file_handler]

\* C25: handler state is per manager.  No call on one manager changes the
\* bootstrapped mark or the handler attributes another manager sees, also when
\* both were created for the same logger name; so a manager no call was made on
\* is not bootstrapped, and shutdown() of one manager releases no handler of the
\* other.
C25_PerManagerState ==
  [][\A m \in Instances, o \in Instances :
        (steps' = steps + 1 /\ last'.op \in LifecycleOps /\ last'.m = m /\ o # m)
          => SeenAfter(o) = Seen(o)]_vars

\* C26: update_config() sets the level of managed sinks only.  A handler a
\* collaborator attached to the logger keeps its level across every call.
C26_ExternalLevelKept ==
  [][StepOf("update_config") =>
       \A h \in HandlerIds : IsExternal(h) => heap'[h].level = heap[h].level]_vars

\* C27: no record is lost to a thread that logs during the handoff.  When
\* enable_file_logging() has returned, every record the logger accepted since
\* bootstrap, whenever another thread logged it, is in the log file.
C27_NoLossInHandoff ==
  pc.at = "done" =>
    \A i \in 1..Len(accepted[TheLogger].recs) :
      accepted[TheLogger].recs[i] \in Range(files[config[TheManager].file_path])

\* C30: every logging key of the settings has its own fallback.  Whatever keys
\* of app.log are missing or invalid, apply_settings_to_state raises nothing and
\* leaves each key of state.log at the value the file gives when that is valid
\* and at the key's default otherwise.
C30_IndependentFallback ==
  Returned("apply_settings_to_state") =>
    /\ ~last.result.raised
    /\ \A k \in LogKeys : last.result.log[k] = last.want[k]

\* The calls bootstrap_infrastructure makes into the logger lifecycle and the
\* settings, in the order the statements ran.
AppCallsOf(tr) == SelectSeq(tr, LAMBDA e : e[1] = "call")

BootstrapOrder ==
  << <<"call", "bootstrap">>, <<"call", "load_settings">>,
     <<"call", "update_config">>, <<"call", "enable_file_logging">> >>

\* The position of the first statement e in the trace tr, 0 when it never ran.
FirstAt(tr, e) ==
  IF \E i \in 1..Len(tr) : tr[i] = e
  THEN CHOOSE i \in 1..Len(tr) : tr[i] = e /\ \A j \in 1..(i - 1) : tr[j] # e
  ELSE 0

\* C28: every bootstrap_infrastructure() with no bootstrapper registered calls
\* bootstrap (which, on a logger not bootstrapped yet, attaches the buffer and
\* then the console before anything else), then load_settings, then update_config with the
\* configuration resolved from the loaded state, then enable_file_logging, each
\* at most once and in that order, and all four when it returns normally; a
\* call made while a bootstrapper is registered makes none of these calls and
\* changes nothing.
C28_BootstrapOrder ==
  [][StepOf("bootstrap_infrastructure") =>
       LET calls == AppCallsOf(last'.trace)
           buffer == FirstAt(last'.trace, <<"addHandler", "buffer">>)
           console == FirstAt(last'.trace, <<"addHandler", "console">>)
           loaded == FirstAt(last'.trace, <<"call", "load_settings">>)
       IN  IF app.bootstrapper
           THEN /\ calls = <<>>
                /\ UNCHANGED <<loggers, heap, files, config, root_logger_name, accepted, app>>
           ELSE /\ Len(calls) \in 2..4
                /\ calls = SubSeq(BootstrapOrder, 1, Len(calls))
                /\ loggers'[TheLogger].bootstrapped
                /\ ~loggers[TheLogger].bootstrapped =>
                     /\ FirstAt(last'.trace, <<"call", "bootstrap">>) < buffer
                     /\ buffer < console
                     /\ console < loaded
                /\ ~last'.raised =>
                     /\ Len(calls) = 4
                     /\ app'.bootstrapper
                     /\ config'[TheManager] = AsLogConfig(resolve_log_config_from_state(app'.log))
                /\ last'.raised => ~app'.bootstrapper /\ Len(calls) = 2]_vars

\* A repeated call found the bootstrapper registered, after a call that loaded
\* a settings file.
C28_Witness ==
  /\ last.op = "bootstrap_infrastructure"
  /\ Has(last.trace, <<"return", "already bootstrapped">>)
  /\ app.bootstrapper
  /\ app.last_load_ok
  /\ BufferSinks(TheLogger) = {}

\* The capacities of the buffer sinks attached to the logger in the world W.
BufferCapacities(W) ==
  { W.hp[h].capacity : h \in { x \in Range(W.lg[TheLogger].handlers) : W.hp[x].kind = "Memory" } }

\* C29: when bootstrap_infrastructure() has loaded the settings, the buffer sink
\* that took the early records was created with the capacity
\* state.log.buffer_capacity, and the configuration the resolver produced, which
\* the manager now holds, carries that capacity.
C29_BufferCapacityFromSettings ==
  [][(StepOf("bootstrap_infrastructure") /\ ~app.bootstrapper /\ app'.bootstrapper
        /\ app'.last_load_ok) =>
       /\ BufferCapacities(StartLogger(Pair(World, app)).w) = {app'.log.buffer_capacity}
       /\ resolve_log_config_from_state(app'.log).buffer_capacity = app'.log.buffer_capacity
       /\ config'[TheManager].buffer_capacity = app'.log.buffer_capacity]_vars

====
